---- MODULE Spec2Model ----
(***************************************************************************)
(* A model of the PIV client in piv.c: the token list built by             *)
(* piv_enumerate, the transaction bracket (piv_txn_begin / piv_txn_end),   *)
(* the operations that change card authentication state, the certificate   *)
(* cache, and the ECDH sealed box.                                         *)
(*                                                                         *)
(* Every C function is an operator from a "world" record (the heap the     *)
(* function can touch) and the replies of the reader library to a result   *)
(* record [w, rv, ...]; the actions apply one public function to the       *)
(* current state.  A failed assertion (assert, VERIFY0, VERIFY3U) ends the *)
(* process: rv = "ABORT" and w.aborted = TRUE.                             *)
(***************************************************************************)
EXTENDS Integers, Sequences, FiniteSets, TLC

VARIABLES
    tks,        \* the token list returned by piv_enumerate, head first
    tok,        \* reader -> struct piv_token
    rdr,        \* reader -> the reader library's state for the card handle
    card,       \* reader -> what the card in the reader holds
    obs,        \* reader -> what the reader library has seen the client do
    tx_outside, \* an APDU was sent to a card outside a transaction
    aborted,    \* the process was stopped by a failed assertion
    last,       \* the last call: [op, tk, rv, intxn]
    box,        \* the struct piv_ecdh_box the caller holds
    gh,         \* what was sealed into the box, and what was done to it since
    ser,        \* the bytes piv_box_to_binary returned, and the box they are of
    out         \* the values the last call stored through its out-parameters

tokvars == <<tks, tok, rdr, card, obs, tx_outside>>
boxvars == <<box, gh, ser>>
vars == <<tks, tok, rdr, card, obs, tx_outside, aborted, last, box, gh, ser,
          out>>

(***************************************************************************)
(* Bounds                                                                  *)
(***************************************************************************)
NumReaders == 2
Readers == 1..NumReaders

(***************************************************************************)
(* Constants of piv.h and of the reader library                            *)
(***************************************************************************)
SW_NO_ERROR == 36864                        \* 0x9000
SW_BYTES_REMAINING_00 == 24832              \* 0x6100
SW_INCORRECT_PIN == 25536                   \* 0x63C0
SW_WRONG_DATA == 27264                      \* 0x6A80
SW_FILE_NOT_FOUND == 27266                  \* 0x6A82
SW_INCORRECT_P1P2 == 27270                  \* 0x6A86
SW_SECURITY_STATUS_NOT_SATISFIED == 27010   \* 0x6982
SW_FUNC_NOT_SUPPORTED == 27265              \* 0x6A81

SCARD_S_SUCCESS == "SCARD_S_SUCCESS"
SCARD_E_FAILED == "SCARD_E_COMM_DATA_LOST"
SCardResults == {SCARD_S_SUCCESS, SCARD_E_FAILED}
SCARD_LEAVE_CARD == "SCARD_LEAVE_CARD"
SCARD_RESET_CARD == "SCARD_RESET_CARD"

NULL == "NULL"
\* A NULL pointer to an integer, or an absent integer
NONE == -1

GuidLen == 16
GuidZero == [i \in 1..GuidLen |-> 0]
\* The GUID in the CHUID of the card in reader r: 16 bytes, none of them 0
Guid(r) == [i \in 1..GuidLen |-> 16 * r + i]

(***************************************************************************)
(* The world a function works on                                           *)
(***************************************************************************)
\* calloc(1, sizeof (struct piv_token))
ZeroToken ==
    [pt_intxn |-> FALSE, pt_reset |-> FALSE, pt_guid |-> GuidZero,
     pt_nochuid |-> FALSE, pt_ykpiv |-> FALSE, pt_slots |-> <<>>]

\* The reader library's side of one card handle: depth counts the
\* SCardBeginTransaction calls that succeeded minus the SCardEndTransaction
\* calls, and lastok is the last of these calls that returned
\* SCARD_S_SUCCESS.
ZeroReader == [depth |-> 0, lastok |-> "none"]

\* What has been observed of the client on one token.  Of the transaction
\* that was closed last, until the next one begins: the disposition that
\* SCardEndTransaction was given (disp), the must-reset flag at that call
\* (end_reset), whether an authentication-changing operation had returned 0
\* in it (end_authok) or had been called in it (end_tried).  Of the open
\* transaction: authok and tried, the same.
ZeroObs ==
    [disp |-> "NONE", end_reset |-> FALSE, end_authok |-> FALSE,
     end_tried |-> FALSE, authok |-> FALSE, tried |-> FALSE]

World == [tks |-> tks, tok |-> tok, rdr |-> rdr, obs |-> obs,
          tx_outside |-> tx_outside, aborted |-> aborted]

\* The value of F at the value of e, with e evaluated once
Force(e, F(_)) == CHOOSE y \in {F(x) : x \in {e}} : TRUE

Ret(w, rv) == [w |-> w, rv |-> rv]
Abort(w) == [w |-> [w EXCEPT !.aborted = TRUE], rv |-> "ABORT"]

\* Bit masks of the status word: sw & 0xFF00, sw & 0xFFF0, sw & 0x000F
Hi(sw) == sw - (sw % 256)
Hi12(sw) == sw - (sw % 16)
Lo4(sw) == sw % 16

(***************************************************************************)
(* The reader library (PC/SC), as the client sees it                       *)
(***************************************************************************)
\* SCardTransmit: the reader passes one APDU to the card.  Recorded: whether
\* the token was outside a transaction of the reader when it was sent.
SCardTransmit(w, t) ==
    [w EXCEPT !.tx_outside = @ \/ (w.rdr[t].depth # 1)
                               \/ ~w.tok[t].pt_intxn]

\* A reply of the card to one APDU as SCardTransmit returns it: the result of
\* the call, the trailing status word, and the content of the reply data.
Reply(io, sw, body) == [io |-> io, sw |-> sw, body |-> body]

(***************************************************************************)
(* piv_apdu_transceive                                                     *)
(***************************************************************************)
piv_apdu_transceive(w, t, reply) ==
    IF ~w.tok[t].pt_intxn
    THEN Abort(w) @@ [sw |-> 0]
    ELSE LET w1 == SCardTransmit(w, t) IN
         IF reply.io # SCARD_S_SUCCESS
         THEN [w |-> w1, rv |-> reply.io, sw |-> 0]
         ELSE [w |-> w1, rv |-> "0", sw |-> reply.sw]

(***************************************************************************)
(* piv_txn_begin, piv_txn_end                                              *)
(***************************************************************************)
\* SCardBeginTransaction and SCardEndTransaction with result rv
SCardBeginTransaction(w, t, rv) ==
    IF rv # SCARD_S_SUCCESS THEN w
    ELSE [w EXCEPT !.rdr[t].depth = @ + 1, !.rdr[t].lastok = "begin",
                   !.obs[t] = ZeroObs]
SCardEndTransaction(w, t, disp, rv) ==
    [w EXCEPT !.rdr[t].depth = @ - 1,
              !.rdr[t].lastok = IF rv = SCARD_S_SUCCESS THEN "end" ELSE @,
              !.obs[t].disp = disp,
              !.obs[t].end_reset = w.tok[t].pt_reset,
              !.obs[t].end_authok = w.obs[t].authok,
              !.obs[t].end_tried = w.obs[t].tried,
              !.obs[t].authok = FALSE,
              !.obs[t].tried = FALSE]

\* piv_txn_begin with the assertion left out
piv_txn_begin_reentrant(w, t, rv) ==
    LET w1 == SCardBeginTransaction(w, t, rv) IN
    IF rv # SCARD_S_SUCCESS
    THEN Ret(w1, "EIO")
    ELSE Ret([w1 EXCEPT !.tok[t].pt_intxn = TRUE], "0")

\* piv_txn_begin that sets the flag before it looks at the reader's result
piv_txn_begin_early_flag(w, t, rv) ==
    IF w.tok[t].pt_intxn # FALSE
    THEN Abort(w)
    ELSE LET w1 == SCardBeginTransaction(w, t, rv) IN
    IF rv # SCARD_S_SUCCESS
    THEN Ret([w1 EXCEPT !.tok[t].pt_intxn = TRUE], "EIO")
    ELSE Ret([w1 EXCEPT !.tok[t].pt_intxn = TRUE], "0")

piv_txn_begin(w, t, rv) ==
    IF w.tok[t].pt_intxn # FALSE
    THEN Abort(w)
    ELSE LET w1 == SCardBeginTransaction(w, t, rv) IN
    IF rv # SCARD_S_SUCCESS
    THEN Ret(w1, "EIO")
    ELSE Ret([w1 EXCEPT !.tok[t].pt_intxn = TRUE], "0")

\* piv_txn_end that leaves the must-reset flag as it is
piv_txn_end_keeps_reset(w, t, rv) ==
    IF w.tok[t].pt_intxn # TRUE
    THEN Abort(w)
    ELSE LET disp == IF w.tok[t].pt_reset THEN SCARD_RESET_CARD
                     ELSE SCARD_LEAVE_CARD
             w1 == SCardEndTransaction(w, t, disp, rv)
         IN Ret([w1 EXCEPT !.tok[t].pt_intxn = FALSE], "void")

piv_txn_end(w, t, rv) ==
    IF w.tok[t].pt_intxn # TRUE
    THEN Abort(w)
    ELSE LET disp == IF w.tok[t].pt_reset THEN SCARD_RESET_CARD
                     ELSE SCARD_LEAVE_CARD
             w1 == SCardEndTransaction(w, t, disp, rv)
         IN Ret([w1 EXCEPT !.tok[t].pt_intxn = FALSE,
                           !.tok[t].pt_reset = FALSE], "void")

(***************************************************************************)
(* Operations that change the card's authentication state                  *)
(***************************************************************************)
\* An authentication-changing operation was attempted in the transaction.
Tried(w, t) == [w EXCEPT !.obs[t].tried = TRUE]
\* The card accepted the authentication (it answered 9000), and the
\* operation returned 0.
CardAccepted(w, t) == [w EXCEPT !.obs[t].authok = TRUE]

\* piv_auth_admin: r1 is the reply to the request for a challenge, whose body
\* is [tag, challen] (challen = NONE when the 0x7C template holds no 0x80),
\* r2 the reply to the response.
DES3_KEYLEN == 24
DES3_BLOCKSZ == 8
piv_auth_admin(w, t, keylen, r1, r2) ==
    IF ~w.tok[t].pt_intxn THEN Abort(w)
    ELSE IF keylen # DES3_KEYLEN THEN Abort(w)
    ELSE LET a1 == piv_apdu_transceive(Tried(w, t), t, r1) IN
    IF a1.rv = "ABORT" THEN Abort(a1.w)
    ELSE IF a1.rv # "0" THEN Ret(a1.w, "EIO")
    ELSE IF a1.sw # SW_NO_ERROR THEN Ret(a1.w, "EINVAL")
    ELSE IF r1.body.tag # 124 THEN Ret(a1.w, "ENOTSUP")
    ELSE IF r1.body.challen = NONE THEN Abort(a1.w)
    ELSE IF r1.body.challen # DES3_BLOCKSZ THEN Abort(a1.w)
    ELSE LET w2 == [a1.w EXCEPT !.tok[t].pt_reset = TRUE]
             a2 == piv_apdu_transceive(w2, t, r2) IN
    IF a2.rv = "ABORT" THEN Abort(a2.w)
    ELSE IF a2.rv # "0" THEN Ret(a2.w, "EIO")
    ELSE IF a2.sw = SW_NO_ERROR THEN Ret(CardAccepted(a2.w, t), "0")
    ELSE IF a2.sw = SW_INCORRECT_P1P2 THEN Ret(a2.w, "ENOENT")
    ELSE IF a2.sw = SW_WRONG_DATA THEN Ret(a2.w, "EACCES")
    ELSE Ret(a2.w, "EINVAL")

\* piv_change_pin: r is the reply to CHANGE REFERENCE DATA.
piv_change_pin(w, t, r) ==
    IF ~w.tok[t].pt_intxn THEN Abort(w)
    ELSE LET a == piv_apdu_transceive(Tried(w, t), t, r) IN
    IF a.rv = "ABORT" THEN Abort(a.w)
    ELSE IF a.rv # "0" THEN Ret(a.w, "EIO")
    ELSE IF a.sw = SW_NO_ERROR
    THEN Ret(CardAccepted([a.w EXCEPT !.tok[t].pt_reset = TRUE], t), "0")
    ELSE IF Hi12(a.sw) = SW_INCORRECT_PIN THEN Ret(a.w, "EACCES")
    ELSE Ret(a.w, "EINVAL")

\* piv_verify_pin that forgets the must-reset flag
piv_verify_pin_no_reset(w, t, retries, r1, r2) ==
    IF ~w.tok[t].pt_intxn THEN Abort(w) @@ [retries |-> retries]
    ELSE LET a == piv_apdu_transceive(Tried(w, t), t, r2) IN
    IF a.rv = "ABORT" THEN Abort(a.w) @@ [retries |-> retries]
    ELSE IF a.rv # "0" THEN Ret(a.w, "EIO") @@ [retries |-> retries]
    ELSE IF a.sw = SW_NO_ERROR
    THEN Ret(CardAccepted(a.w, t), "0") @@ [retries |-> retries]
    ELSE Ret(a.w, "EINVAL") @@ [retries |-> retries]

\* The result of piv_verify_pin: *retries with it, and the VERIFY commands
\* that were passed to piv_apdu_transceive, in order ("empty": without
\* data, "pin": with the PIN)
VerifyRet(r, retries, sent) == r @@ [retries |-> retries, sent |-> sent]

\* piv_verify_pin that leaves *retries alone when the card says 63Cx
piv_verify_pin_keeps_retries(w, t, retries, r1, r2) ==
    IF ~w.tok[t].pt_intxn THEN VerifyRet(Abort(w), retries, <<>>)
    ELSE LET a == piv_apdu_transceive(Tried(w, t), t, r2) IN
    IF a.rv = "ABORT" THEN VerifyRet(Abort(a.w), retries, <<"pin">>)
    ELSE IF a.rv # "0" THEN VerifyRet(Ret(a.w, "EIO"), retries, <<"pin">>)
    ELSE IF a.sw = SW_NO_ERROR
    THEN VerifyRet(Ret(CardAccepted([a.w EXCEPT !.tok[t].pt_reset = TRUE],
                                    t), "0"), retries, <<"pin">>)
    ELSE IF Hi12(a.sw) = SW_INCORRECT_PIN
    THEN VerifyRet(Ret(a.w, "EACCES"), retries, <<"pin">>)
    ELSE VerifyRet(Ret(a.w, "EINVAL"), retries, <<"pin">>)

\* piv_verify_pin that asks the card for the tries that are left and sends
\* the PIN all the same
piv_verify_pin_burns_try(w, t, retries, r1, r2) ==
    IF ~w.tok[t].pt_intxn THEN VerifyRet(Abort(w), retries, <<>>)
    ELSE LET a1 == piv_apdu_transceive(Tried(w, t), t, r1)
             a == piv_apdu_transceive(a1.w, t, r2) IN
    IF a.rv = "ABORT" THEN VerifyRet(Abort(a.w), retries, <<"empty", "pin">>)
    ELSE IF a.rv # "0"
    THEN VerifyRet(Ret(a.w, "EIO"), retries, <<"empty", "pin">>)
    ELSE IF a.sw = SW_NO_ERROR
    THEN VerifyRet(Ret(CardAccepted([a.w EXCEPT !.tok[t].pt_reset = TRUE],
                                    t), "0"), retries, <<"empty", "pin">>)
    ELSE IF Hi12(a.sw) = SW_INCORRECT_PIN
    THEN VerifyRet(Ret(a.w, "EACCES"),
                   IF retries # NONE THEN Lo4(a.sw) ELSE retries,
                   <<"empty", "pin">>)
    ELSE VerifyRet(Ret(a.w, "EINVAL"), retries, <<"empty", "pin">>)

\* piv_verify_pin: retries is NONE (NULL) or the value of *retries; r1 is the reply
\* to the VERIFY without data (sent only when *retries > 0), r2 the reply to
\* the VERIFY that carries the PIN.
piv_verify_pin(w, t, retries, r1, r2) ==
    IF ~w.tok[t].pt_intxn THEN VerifyRet(Abort(w), retries, <<>>)
    ELSE
    LET w0 == Tried(w, t)
        ask == retries # NONE /\ retries > 0
        pre == IF ask
               THEN LET a == piv_apdu_transceive(w0, t, r1) IN
                    IF a.rv = "ABORT" THEN Abort(a.w)
                    ELSE IF a.rv # "0" THEN Ret(a.w, "EIO")
                    ELSE IF Hi12(a.sw) = SW_INCORRECT_PIN
                    THEN IF Lo4(a.sw) <= retries THEN Ret(a.w, "EAGAIN")
                         ELSE Ret(a.w, "0")
                    ELSE Ret(a.w, "EINVAL")
               ELSE Ret(w0, "0")
        s1 == IF ask THEN <<"empty">> ELSE <<>>
        s2 == s1 \o <<"pin">>
    IN
    IF pre.rv # "0" THEN VerifyRet(pre, retries, s1)
    ELSE LET a == piv_apdu_transceive(pre.w, t, r2) IN
    IF a.rv = "ABORT" THEN VerifyRet(Abort(a.w), retries, s2)
    ELSE IF a.rv # "0" THEN VerifyRet(Ret(a.w, "EIO"), retries, s2)
    ELSE IF a.sw = SW_NO_ERROR
    THEN VerifyRet(Ret(CardAccepted([a.w EXCEPT !.tok[t].pt_reset = TRUE],
                                    t), "0"), retries, s2)
    ELSE IF Hi12(a.sw) = SW_INCORRECT_PIN
    THEN VerifyRet(Ret(a.w, "EACCES"),
                   IF retries # NONE THEN Lo4(a.sw) ELSE retries, s2)
    ELSE VerifyRet(Ret(a.w, "EINVAL"), retries, s2)

(***************************************************************************)
(* piv_select, piv_read_chuid, piv_probe_ykpiv, piv_enumerate, piv_release *)
(***************************************************************************)
\* piv_select: the body of the reply is "apt" (a well-formed Application
\* Property Template), "badtag" (the outer tag is not 0x61), "unknown" (an
\* unknown tag inside the template) or "badalg" (a tag other than 0x80 and
\* 0x06 inside the algorithm list).
piv_select(w, t, r) ==
    IF ~w.tok[t].pt_intxn THEN Abort(w)
    ELSE LET a == piv_apdu_transceive(w, t, r) IN
    IF a.rv = "ABORT" THEN Abort(a.w)
    ELSE IF a.rv # "0" THEN Ret(a.w, "EIO")
    ELSE IF a.sw # SW_NO_ERROR THEN Ret(a.w, "ENOENT")
    ELSE IF r.body = "badtag" THEN Ret(a.w, "ENOTSUP")
    ELSE IF r.body = "unknown" THEN Ret(a.w, "ENOTSUP")
    ELSE IF r.body = "badalg" THEN Abort(a.w)
    ELSE Ret(a.w, "0")

\* piv_read_chuid: the body of the reply is [tag, has34, guid, unknown]: the
\* outer tag, whether the object holds a tag 0x34 and its value, and whether
\* it holds a tag the function does not know.
piv_read_chuid(w, t, r) ==
    IF ~w.tok[t].pt_intxn THEN Abort(w)
    ELSE LET a == piv_apdu_transceive(w, t, r) IN
    IF a.rv = "ABORT" THEN Abort(a.w)
    ELSE IF a.rv # "0" THEN Ret(a.w, "EIO")
    ELSE IF a.sw = SW_NO_ERROR
    THEN IF r.body.tag # 83 THEN Ret(a.w, "ENOTSUP")
         ELSE IF r.body.has34 /\ Len(r.body.guid) # GuidLen THEN Abort(a.w)
         ELSE LET w1 == IF r.body.has34
                        THEN [a.w EXCEPT !.tok[t].pt_guid = r.body.guid]
                        ELSE a.w
              IN IF r.body.unknown THEN Ret(w1, "ENOTSUP") ELSE Ret(w1, "0")
    ELSE IF a.sw = SW_FILE_NOT_FOUND THEN Ret(a.w, "ENOENT")
    ELSE Ret(a.w, "EINVAL")

\* piv_probe_ykpiv: the body of the reply is the number of data bytes.
piv_probe_ykpiv(w, t, r) ==
    LET a == piv_apdu_transceive(w, t, r) IN
    IF a.rv = "ABORT" THEN Abort(a.w)
    ELSE IF a.rv # "0" THEN Ret(a.w, "EIO")
    ELSE IF a.sw = SW_NO_ERROR
    THEN IF r.body < 3 THEN Ret(a.w, "ENOTSUP")
         ELSE Ret([a.w EXCEPT !.tok[t].pt_ykpiv = TRUE], "0")
    ELSE Ret(a.w, "ENOTSUP")

\* One turn of the loop of piv_enumerate, for reader r;
\* o = [connect, begin, select, chuid, yk, end] are the reader's answers.
enumerate_reader(w, r, o) ==
    IF o.connect = "fail" THEN w
    ELSE IF o.connect = "badproto" THEN Abort(w).w
    ELSE
    Force([w EXCEPT !.tok[r] = ZeroToken, !.obs[r] = ZeroObs,
                    !.rdr[r] = ZeroReader], LAMBDA w0 :
    Force(piv_txn_begin(w0, r, o.begin), LAMBDA b :
    Force(piv_select(b.w, r, o.select), LAMBDA s :
    Force(IF s.rv = "0" THEN piv_read_chuid(s.w, r, o.chuid) ELSE s,
          LAMBDA c :
    Force(IF s.rv = "0" /\ c.rv = "ENOENT"
          THEN Ret([c.w EXCEPT !.tok[r].pt_nochuid = TRUE], "0")
          ELSE c, LAMBDA c1 :
    Force(IF c1.rv = "0" THEN piv_probe_ykpiv(c1.w, r, o.yk) ELSE c1,
          LAMBDA y :
    Force(IF c1.rv = "0" /\ y.rv = "ENOTSUP" THEN Ret(y.w, "0") ELSE y,
          LAMBDA y1 :
    IF y1.w.aborted THEN y1.w
    ELSE
    Force(piv_txn_end(y1.w, r, o.end), LAMBDA e :
    IF e.w.aborted THEN e.w
    ELSE IF y1.rv = "0" THEN [e.w EXCEPT !.tks = <<r>> \o @]
    ELSE [e.w EXCEPT !.tok[r] = ZeroToken, !.obs[r] = ZeroObs,
                     !.rdr[r] = ZeroReader]))))))))

RECURSIVE enumerate_from(_, _, _)
enumerate_from(w, r, os) ==
    IF r > NumReaders \/ w.aborted THEN w
    ELSE Force(enumerate_reader(w, r, os[r]), LAMBDA w1 :
               enumerate_from(w1, r + 1, os))

\* piv_enumerate: os[r] are the answers of reader r.
piv_enumerate(w, os) ==
    LET w1 == enumerate_from([w EXCEPT !.tks = <<>>], 1, os) IN
    IF w1.aborted THEN [w |-> w1, rv |-> "ABORT"] ELSE Ret(w1, "list")

\* piv_release of the whole list.
RECURSIVE release_from(_, _)
release_from(w, i) ==
    IF i > Len(w.tks) THEN [w EXCEPT !.tks = <<>>]
    ELSE LET t == w.tks[i] IN
         IF w.tok[t].pt_intxn # FALSE THEN Abort(w).w
         ELSE release_from([w EXCEPT !.tok[t] = ZeroToken,
                                     !.obs[t] = ZeroObs,
                                     !.rdr[t] = ZeroReader], i + 1)

piv_release(w) ==
    LET w1 == release_from(w, 1) IN
    IF w1.aborted THEN [w |-> w1, rv |-> "ABORT"] ELSE Ret(w1, "void")

(***************************************************************************)
(* Byte strings, and the buffers of sshbuf                                 *)
(***************************************************************************)
\* A pointer that is NULL: no byte string holds -1.
NullPtr == <<-1>>

RECURSIVE SumSeq(_)
SumSeq(b) == IF b = <<>> THEN 0 ELSE b[1] + SumSeq(Tail(b))

\* sshbuf_put_u32: four bytes, the most significant first
U32(n) == <<(n \div 16777216) % 256, (n \div 65536) % 256,
            (n \div 256) % 256, n % 256>>
\* sshbuf_put_string, sshbuf_put_stringb: the length, then the bytes
PutString(b) == U32(Len(b)) \o b
\* sshbuf_put_cstring: a NULL pointer is written as the empty string
PutCString(str) == IF str = NullPtr THEN PutString(<<>>) ELSE PutString(str)

\* The result of taking a value off the front of a buffer
Got(ok, val, rest) == [ok |-> ok, val |-> val, rest |-> rest]
PeekU32(b) == ((b[1] * 256 + b[2]) * 256 + b[3]) * 256 + b[4]
\* sshbuf_get_u8
GetU8(b) == IF Len(b) < 1 THEN Got(FALSE, 0, b)
            ELSE Got(TRUE, b[1], Tail(b))
\* sshbuf_get_string, sshbuf_get_stringb
GetString(b) ==
    IF Len(b) < 4 THEN Got(FALSE, <<>>, b)
    ELSE IF Len(b) - 4 < PeekU32(b) THEN Got(FALSE, <<>>, b)
    ELSE Got(TRUE, SubSeq(b, 5, 4 + PeekU32(b)),
             SubSeq(b, 5 + PeekU32(b), Len(b)))
\* sshbuf_get_cstring: a string with a NUL before its last byte is refused
GetCString(b) ==
    LET g == GetString(b) IN
    IF ~g.ok THEN g
    ELSE IF \E i \in 1..(Len(g.val) - 1) : g.val[i] = 0
    THEN Got(FALSE, <<>>, b)
    ELSE g

(***************************************************************************)
(* Keys, ciphers and digests of the crypto library.  The group is the      *)
(* integers with generator 1 (the public key of d is d, the shared secret  *)
(* of d and q is d * q); the digest and the cipher are arithmetic on       *)
(* bytes that keeps what the box relies on: the digest depends on its      *)
(* input and algorithm, decryption undoes encryption under the same key    *)
(* and IV, and the tag depends on the key, the IV and every ciphertext     *)
(* byte.                                                                   *)
(***************************************************************************)
\* "chacha20-poly1305"
STR_chacha20_poly1305 == <<99, 104, 97, 99, 104, 97, 50, 48, 45, 112, 111,
    108, 121, 49, 51, 48, 53>>
\* "aes128-gcm@openssh.com"
STR_aes128_gcm == <<97, 101, 115, 49, 50, 56, 45, 103, 99, 109, 64, 111,
    112, 101, 110, 115, 115, 104, 46, 99, 111, 109>>
\* "sha512"
STR_sha512 == <<115, 104, 97, 53, 49, 50>>
\* "sha256"
STR_sha256 == <<115, 104, 97, 50, 53, 54>>
\* "ecdsa-sha2-nistp256"
STR_ecdsa_sha2_nistp256 == <<101, 99, 100, 115, 97, 45, 115, 104, 97, 50,
    45, 110, 105, 115, 116, 112, 50, 53, 54>>
\* "nistp256"
STR_nistp256 == <<110, 105, 115, 116, 112, 50, 53, 54>>
\* "ecdsa-sha2-nistp384"
STR_ecdsa_sha2_nistp384 == <<101, 99, 100, 115, 97, 45, 115, 104, 97, 50,
    45, 110, 105, 115, 116, 112, 51, 56, 52>>
\* "nistp384"
STR_nistp384 == <<110, 105, 115, 116, 112, 51, 56, 52>>

\* struct sshkey of type KEY_ECDSA: the curve size in bits, the public
\* point q, and the private scalar d (0 in a public key)
SshKey(bits, q, d) == [type |-> "KEY_ECDSA", bits |-> bits, q |-> q, d |-> d]
NullKey == [type |-> "NULL", bits |-> 0, q |-> 0, d |-> 0]
\* sshkey_generate(KEY_ECDSA, bits), with the scalar the generator drew
sshkey_generate(bits, d) == SshKey(bits, d, d)
\* sshkey_demote: the public half
sshkey_demote(k) == SshKey(k.bits, k.q, 0)
sshkey_equal_public(a, b) ==
    a.type = b.type /\ a.bits = b.bits /\ a.q = b.q

\* EC_GROUP_get_degree and the size of a field element in bytes
FieldBytes(bits) == (bits + 7) \div 8

\* ECDH_compute_key(priv, pub): the shared secret, FieldBytes long; -1 when
\* the point is not on the private key's curve
ECDH_compute_key(priv, pub) ==
    IF priv.bits # pub.bits THEN [len |-> -1, sec |-> <<>>]
    ELSE [len |-> FieldBytes(priv.bits),
          sec |-> [i \in 1..FieldBytes(priv.bits) |-> (priv.d * pub.q) % 256]]

\* sshkey_putb: the key type, the curve name and the point 04 || X || Y
sshkey_putb(k) ==
    PutString(IF k.bits = 256 THEN STR_ecdsa_sha2_nistp256
              ELSE STR_ecdsa_sha2_nistp384)
    \o PutString(IF k.bits = 256 THEN STR_nistp256 ELSE STR_nistp384)
    \o PutString(<<4>> \o [i \in 1..(2 * FieldBytes(k.bits)) |-> k.q])

\* sshkey_fromb: the key in a blob, refused unless the type is known, the
\* curve is the type's, and the point is a point of the curve
sshkey_fromb(b) ==
    LET ty == GetString(b)
        cv == GetString(ty.rest)
        pt == GetString(cv.rest)
        bits == IF ty.val = STR_ecdsa_sha2_nistp256 THEN 256 ELSE 384
    IN
    IF ~ty.ok \/ ty.val \notin {STR_ecdsa_sha2_nistp256,
                                STR_ecdsa_sha2_nistp384}
    THEN [ok |-> FALSE, key |-> NullKey]
    ELSE IF ~cv.ok \/ cv.val # (IF bits = 256 THEN STR_nistp256
                                ELSE STR_nistp384)
    THEN [ok |-> FALSE, key |-> NullKey]
    ELSE IF ~pt.ok \/ Len(pt.val) # 1 + 2 * FieldBytes(bits)
    THEN [ok |-> FALSE, key |-> NullKey]
    ELSE IF pt.val[1] # 4 \/ \E i \in 3..Len(pt.val) : pt.val[i] # pt.val[2]
    THEN [ok |-> FALSE, key |-> NullKey]
    ELSE [ok |-> TRUE, key |-> SshKey(bits, pt.val[2], 0)]

\* struct sshcipher, and cipher_by_name
SshCipher(name, block, key, iv, auth) ==
    [name |-> name, block_size |-> block, key_len |-> key, iv_len |-> iv,
     auth_len |-> auth]
NullCipher == SshCipher(NullPtr, 0, 0, 0, 0)
cipher_by_name(name) ==
    IF name = STR_chacha20_poly1305
    THEN SshCipher(name, 1, 64, 0, 16)
    ELSE IF name = STR_aes128_gcm
    THEN SshCipher(name, 16, 16, 12, 16)
    ELSE NullCipher

\* ssh_digest_alg_by_name and ssh_digest_bytes (0 for an unknown digest)
ssh_digest_alg_by_name(name) ==
    IF name = STR_sha256 THEN 2 ELSE IF name = STR_sha512 THEN 4 ELSE -1
ssh_digest_bytes(alg) ==
    IF alg = 1 THEN 20 ELSE IF alg = 2 THEN 32 ELSE IF alg = 3 THEN 48
    ELSE IF alg = 4 THEN 64 ELSE 0
\* ssh_digest_start, ssh_digest_update and ssh_digest_final over sec
Digest(alg, sec) ==
    [i \in 1..ssh_digest_bytes(alg) |->
       (3 * (IF sec = <<>> THEN 0 ELSE sec[1]) + Len(sec) + alg + i) % 256]

\* The key stream and the tag of a cipher context (cipher_init with the
\* first keylen bytes of key, and iv)
KeyStream(key, iv, i) == (key[1] + SumSeq(iv) + i) % 256
AuthTag(key, iv, ct, authlen) ==
    [j \in 1..authlen |-> (5 * key[1] + SumSeq(iv) + SumSeq(ct) + j) % 256]

\* cipher_crypt(cctx, 0, dest, src, len, 0, authlen), encrypting: dest is
\* len bytes of ciphertext and the tag
cipher_encrypt(cipher, key, iv, src) ==
    IF Len(src) % cipher.block_size # 0
    THEN [rv |-> "SSH_ERR_INVALID_ARGUMENT", dest |-> <<>>]
    ELSE LET ct == [i \in 1..Len(src) |->
                      (src[i] + KeyStream(key, iv, i)) % 256]
         IN [rv |-> "0",
             dest |-> ct \o AuthTag(key, iv, ct, cipher.auth_len)]
\* cipher_crypt, decrypting: src is len bytes of ciphertext and the tag
cipher_decrypt(cipher, key, iv, src, len) ==
    LET ct == SubSeq(src, 1, len)
        tag == SubSeq(src, len + 1, len + cipher.auth_len)
    IN
    IF len % cipher.block_size # 0
    THEN [rv |-> "SSH_ERR_INVALID_ARGUMENT", dest |-> <<>>]
    ELSE IF tag # AuthTag(key, iv, ct, cipher.auth_len)
    THEN [rv |-> "SSH_ERR_MAC_INVALID", dest |-> <<>>]
    ELSE [rv |-> "0",
          dest |-> [i \in 1..len |->
                      (ct[i] + 256 - KeyStream(key, iv, i)) % 256]]

(***************************************************************************)
(* The sealed box: piv_box_new .. piv_box_from_binary                      *)
(***************************************************************************)
\* struct buf: b_data is NullPtr or the bytes the pointer leads to
Buf(data, size) == [b_data |-> data, b_size |-> size]
NullBuf == Buf(NullPtr, 0)
\* The b_size bytes at b_data
Bytes(buf) ==
    IF buf.b_data = NullPtr THEN <<>> ELSE SubSeq(buf.b_data, 1, buf.b_size)

\* piv_box_new: calloc(1, sizeof (struct piv_ecdh_box))
piv_box_new ==
    [pdb_guid |-> GuidZero, pdb_slot |-> 0, pdb_ephem_pub |-> NullKey,
     pdb_pub |-> NullKey, pdb_free_str |-> FALSE, pdb_cipher |-> NullPtr,
     pdb_kdf |-> NullPtr, pdb_iv |-> NullBuf, pdb_enc |-> NullBuf,
     pdb_plain |-> NullBuf]

BoxRet(b, rv) == [box |-> b, rv |-> rv]
BoxAbort(b) == [box |-> b, rv |-> "ABORT"]

\* piv_box_set_data: mem tells whether calloc gave memory
piv_box_set_data(b, data, mem) ==
    IF b.pdb_plain.b_data # NullPtr THEN BoxAbort(b)
    ELSE IF ~mem THEN BoxRet(b, "ENOMEM")
    ELSE BoxRet([b EXCEPT !.pdb_plain = Buf(data, Len(data))], "0")

\* piv_box_take_data: the result also holds *data and *len (NullPtr and
\* NONE when they are not written)
piv_box_take_data(b) ==
    IF b.pdb_plain.b_data = NullPtr
    THEN BoxRet(b, "EINVAL") @@ [data |-> NullPtr, len |-> NONE]
    ELSE BoxRet([b EXCEPT !.pdb_plain = NullBuf], "0")
         @@ [data |-> b.pdb_plain.b_data, len |-> b.pdb_plain.b_size]

\* The shared secret as the digest is given it.  A failed ECDH_compute_key
\* returns -1, which the unsigned seclen holds as SIZE_MAX, and the digest
\* then reads past the end of sec: the process is stopped (ub = "crash") or
\* the digest is one of bytes that are not the secret (ub = "garbage").
SecretRead(e, ub) ==
    IF e.len > 0 THEN [ok |-> TRUE, sec |-> e.sec]
    ELSE IF ub = "crash" THEN [ok |-> FALSE, sec |-> <<>>]
    ELSE [ok |-> TRUE, sec |-> <<0>>]

\* The plaintext as piv_box_seal_offline encrypts it: filled up to the block
\* size with 1, 2, 3, ... when its length is not a multiple of it
PadPlain(plain, blocksz) ==
    IF Len(plain) % blocksz = 0 THEN plain
    ELSE plain \o [j \in 1..(blocksz - (Len(plain) % blocksz)) |-> j % 256]

\* piv_box_seal_offline with enclen = plainlen: no room counted for the tag.
piv_box_seal_offline_no_tag_room(b, pubk, d, seed, ub) ==
    LET pkey == sshkey_generate(256, d)
        b1 == [b EXCEPT !.pdb_ephem_pub = sshkey_demote(pkey),
                        !.pdb_cipher = IF @ = NullPtr
                                       THEN STR_chacha20_poly1305 ELSE @,
                        !.pdb_kdf = IF @ = NullPtr THEN STR_sha512 ELSE @]
        cipher == cipher_by_name(b1.pdb_cipher)
        dgalg == ssh_digest_alg_by_name(b1.pdb_kdf)
        s == SecretRead(ECDH_compute_key(pkey, pubk), ub)
        key == Digest(dgalg, s.sec)
        iv == [i \in 1..cipher.iv_len |-> (seed + i) % 256]
        plain == PadPlain(Bytes(b.pdb_plain), cipher.block_size)
        e == cipher_encrypt(cipher, SubSeq(key, 1, cipher.key_len), iv, plain)
    IN
    IF cipher = NullCipher THEN BoxAbort(b)
    ELSE IF ssh_digest_bytes(dgalg) < cipher.key_len THEN BoxAbort(b)
    ELSE IF ~s.ok THEN BoxAbort(b)
    ELSE IF b.pdb_plain.b_size <= 0 THEN BoxAbort(b)
    ELSE IF b.pdb_plain.b_data = NullPtr THEN BoxAbort(b)
    ELSE IF e.rv # "0" THEN BoxAbort(b)
    ELSE BoxRet([b1 EXCEPT !.pdb_iv = Buf(iv, cipher.iv_len),
                           !.pdb_plain = NullBuf,
                           !.pdb_pub = sshkey_demote(pubk),
                           !.pdb_enc = Buf(e.dest, Len(plain))], "0")

\* piv_box_seal_offline: d is the scalar sshkey_generate draws, seed what
\* arc4random_buf writes to the IV
piv_box_seal_offline(b, pubk, d, seed, ub) ==
    LET pkey == sshkey_generate(256, d)
        b1 == [b EXCEPT !.pdb_ephem_pub = sshkey_demote(pkey),
                        !.pdb_cipher = IF @ = NullPtr
                                       THEN STR_chacha20_poly1305 ELSE @,
                        !.pdb_kdf = IF @ = NullPtr THEN STR_sha512 ELSE @]
        cipher == cipher_by_name(b1.pdb_cipher)
        dgalg == ssh_digest_alg_by_name(b1.pdb_kdf)
        s == SecretRead(ECDH_compute_key(pkey, pubk), ub)
        key == Digest(dgalg, s.sec)
        iv == [i \in 1..cipher.iv_len |-> (seed + i) % 256]
        plain == PadPlain(Bytes(b.pdb_plain), cipher.block_size)
        e == cipher_encrypt(cipher, SubSeq(key, 1, cipher.key_len), iv, plain)
    IN
    IF cipher = NullCipher THEN BoxAbort(b)
    ELSE IF ssh_digest_bytes(dgalg) < cipher.key_len THEN BoxAbort(b)
    ELSE IF ~s.ok THEN BoxAbort(b)
    ELSE IF b.pdb_plain.b_size <= 0 THEN BoxAbort(b)
    ELSE IF b.pdb_plain.b_data = NullPtr THEN BoxAbort(b)
    ELSE IF e.rv # "0" THEN BoxAbort(b)
    ELSE BoxRet([b1 EXCEPT !.pdb_iv = Buf(iv, cipher.iv_len),
                           !.pdb_plain = NullBuf,
                           !.pdb_pub = sshkey_demote(pubk),
                           !.pdb_enc = Buf(e.dest, Len(e.dest))], "0")

\* piv_box_open_offline
piv_box_open_offline(b, privkey, ub) ==
    LET cipher == cipher_by_name(b.pdb_cipher)
        dgalg == ssh_digest_alg_by_name(b.pdb_kdf)
        s == SecretRead(ECDH_compute_key(privkey, b.pdb_ephem_pub), ub)
        key == Digest(dgalg, s.sec)
        enclen == b.pdb_enc.b_size
        plainlen == enclen - cipher.auth_len
        c == cipher_decrypt(cipher, SubSeq(key, 1, cipher.key_len),
                            Bytes(b.pdb_iv), Bytes(b.pdb_enc), plainlen)
    IN
    IF b.pdb_cipher = NullPtr \/ b.pdb_kdf = NullPtr THEN BoxAbort(b)
    ELSE IF cipher = NullCipher THEN BoxAbort(b)
    ELSE IF ssh_digest_bytes(dgalg) < cipher.key_len THEN BoxAbort(b)
    ELSE IF b.pdb_ephem_pub = NullKey THEN BoxAbort(b)
    ELSE IF ~s.ok THEN BoxAbort(b)
    ELSE IF b.pdb_iv.b_size # cipher.iv_len THEN BoxAbort(b)
    ELSE IF b.pdb_iv.b_data = NullPtr THEN BoxAbort(b)
    ELSE IF b.pdb_enc.b_data = NullPtr THEN BoxAbort(b)
    ELSE IF enclen < cipher.auth_len + cipher.block_size THEN BoxAbort(b)
    ELSE IF c.rv # "0" THEN BoxAbort(b)
    ELSE BoxRet([b EXCEPT !.pdb_plain = Buf(c.dest, plainlen)], "0")

\* piv_box_to_binary with the slot written before the GUID
piv_box_to_binary_slot_first(b) ==
    IF b.pdb_ephem_pub = NullKey \/ b.pdb_pub = NullKey
    THEN [rv |-> "ABORT", output |-> NullPtr]
    ELSE [rv |-> "0",
          output |-> <<1>> \o <<b.pdb_slot % 256>>
                     \o PutString(b.pdb_guid)
                     \o PutString(sshkey_putb(b.pdb_ephem_pub))
                     \o PutString(sshkey_putb(b.pdb_pub))
                     \o PutCString(b.pdb_cipher)
                     \o PutCString(b.pdb_kdf)
                     \o PutString(Bytes(b.pdb_iv))
                     \o PutString(Bytes(b.pdb_enc))]

\* piv_box_to_binary: the result holds *output (*len is its length)
piv_box_to_binary(b) ==
    IF b.pdb_ephem_pub = NullKey \/ b.pdb_pub = NullKey
    THEN [rv |-> "ABORT", output |-> NullPtr]
    ELSE [rv |-> "0",
          output |-> <<1>> \o PutString(b.pdb_guid)
                     \o <<b.pdb_slot % 256>>
                     \o PutString(sshkey_putb(b.pdb_ephem_pub))
                     \o PutString(sshkey_putb(b.pdb_pub))
                     \o PutCString(b.pdb_cipher)
                     \o PutCString(b.pdb_kdf)
                     \o PutString(Bytes(b.pdb_iv))
                     \o PutString(Bytes(b.pdb_enc))]

\* piv_box_from_binary: the result holds *pbox (piv_box_new when it is not
\* written)
piv_box_from_binary(input) ==
    Force(GetU8(input), LAMBDA ver :
    IF ~ver.ok THEN BoxRet(piv_box_new, "EINVAL")
    ELSE IF ver.val # 1 THEN BoxRet(piv_box_new, "ENOTSUP")
    ELSE
    Force(GetString(ver.rest), LAMBDA guid :
    IF ~guid.ok THEN BoxRet(piv_box_new, "EINVAL")
    ELSE IF Len(guid.val) # GuidLen THEN BoxRet(piv_box_new, "EINVAL")
    ELSE
    Force(GetU8(guid.rest), LAMBDA slot :
    IF ~slot.ok THEN BoxRet(piv_box_new, "EINVAL")
    ELSE
    Force(GetString(slot.rest), LAMBDA eb :
    IF ~eb.ok THEN BoxRet(piv_box_new, "EINVAL")
    ELSE
    Force(sshkey_fromb(eb.val), LAMBDA ephem :
    IF ~ephem.ok THEN BoxRet(piv_box_new, "EINVAL")
    ELSE
    Force(GetString(eb.rest), LAMBDA pb :
    IF ~pb.ok THEN BoxRet(piv_box_new, "EINVAL")
    ELSE
    Force(sshkey_fromb(pb.val), LAMBDA pub :
    IF ~pub.ok THEN BoxRet(piv_box_new, "EINVAL")
    ELSE
    Force(GetCString(pb.rest), LAMBDA cipher :
    IF ~cipher.ok THEN BoxRet(piv_box_new, "EINVAL")
    ELSE
    Force(GetCString(cipher.rest), LAMBDA kdf :
    IF ~kdf.ok THEN BoxRet(piv_box_new, "EINVAL")
    ELSE
    Force(GetString(kdf.rest), LAMBDA iv :
    IF ~iv.ok THEN BoxRet(piv_box_new, "EINVAL")
    ELSE
    Force(GetString(iv.rest), LAMBDA enc :
    IF ~enc.ok THEN BoxRet(piv_box_new, "EINVAL")
    ELSE
    BoxRet([piv_box_new EXCEPT
              !.pdb_guid = guid.val,
              !.pdb_slot = slot.val,
              !.pdb_ephem_pub = ephem.key,
              !.pdb_pub = pub.key,
              !.pdb_free_str = TRUE,
              !.pdb_cipher = cipher.val,
              !.pdb_kdf = kdf.val,
              !.pdb_iv = Buf(iv.val, Len(iv.val)),
              !.pdb_enc = Buf(enc.val, Len(enc.val))], "0"))))))))))))

(***************************************************************************)
(* piv_get_slot, piv_apdu_transceive_chain, piv_ecdh, piv_box_open,        *)
(* piv_box_seal                                                            *)
(***************************************************************************)
PIV_SLOT_KEY_MGMT == 157                    \* 0x9D
GA_TAG_RESPONSE == 130                      \* 0x82
\* The slots of a card that hold a key and a certificate
PivSlots == {154, 156, 157, 158}            \* 0x9A, 0x9C, 0x9D, 0x9E

\* struct piv_slot
Slot(id, alg, pubkey) == [ps_slot |-> id, ps_alg |-> alg, ps_pubkey |-> pubkey]
NullSlot == Slot(NONE, "NULL", NullKey)

\* piv_get_slot: the first record of the list with the slot id, or NULL
RECURSIVE get_slot_from(_, _, _)
get_slot_from(slots, i, slotid) ==
    IF i > Len(slots) THEN NullSlot
    ELSE IF slots[i].ps_slot = slotid THEN slots[i]
    ELSE get_slot_from(slots, i + 1, slotid)
piv_get_slot(tk, slotid) == get_slot_from(tk.pt_slots, 1, slotid)

\* piv_apdu_transceive_chain for a command of at most 255 bytes: rs are the
\* replies to the command and to each GET RESPONSE that follows a status
\* 61xx, in order.  The result holds the status word and the place in rs of
\* the reply that was read last.
RECURSIVE get_response_from(_, _, _, _)
get_response_from(w, t, rs, i) ==
    LET a == piv_apdu_transceive(w, t, rs[i]) IN
    IF a.rv # "0" THEN a @@ [at |-> i]
    ELSE IF Hi(a.sw) = SW_BYTES_REMAINING_00 /\ i < Len(rs)
    THEN get_response_from(a.w, t, rs, i + 1)
    ELSE a @@ [at |-> i]
piv_apdu_transceive_chain(w, t, rs) ==
    IF ~w.tok[t].pt_intxn THEN Abort(w) @@ [sw |-> 0, at |-> 0]
    ELSE get_response_from(w, t, rs, 1)

\* piv_ecdh: the body of a reply is [tag, inner, sec]: the outer tag, the
\* tag inside it and the bytes inside that.  When the outer tag is not 0x7C
\* the log call reads the slot id through the pointer pc, which was never
\* set: the process is stopped (ub = "crash") or the read goes unnoticed.
\* The result holds *secret.
piv_ecdh(w, t, slot, pubkey, rs, ub) ==
    IF ~w.tok[t].pt_intxn THEN Abort(w) @@ [secret |-> NullPtr]
    ELSE IF pubkey.type # "KEY_ECDSA" THEN Abort(w) @@ [secret |-> NullPtr]
    ELSE
    Force(piv_apdu_transceive_chain(w, t, rs), LAMBDA a :
    IF a.rv = "ABORT" THEN Abort(a.w) @@ [secret |-> NullPtr]
    ELSE IF a.rv # "0" THEN Ret(a.w, "EIO") @@ [secret |-> NullPtr]
    ELSE IF a.sw = SW_NO_ERROR
    THEN IF rs[a.at].body.tag # 124
         THEN IF ub = "crash" THEN Abort(a.w) @@ [secret |-> NullPtr]
              ELSE Ret(a.w, "ENOTSUP") @@ [secret |-> NullPtr]
         ELSE IF rs[a.at].body.inner # GA_TAG_RESPONSE
         THEN Ret(a.w, "ENOTSUP") @@ [secret |-> NullPtr]
         ELSE Ret(a.w, "0") @@ [secret |-> rs[a.at].body.sec]
    ELSE IF a.sw = SW_SECURITY_STATUS_NOT_SATISFIED
    THEN Ret(a.w, "EPERM") @@ [secret |-> NullPtr]
    ELSE Ret(a.w, "EINVAL") @@ [secret |-> NullPtr])

\* The result of piv_box_open and piv_box_seal: the world, the box, the value
\* returned, and the values piv_ecdh and cipher_crypt returned in it ("none"
\* when they were not called)
BoxRes(w, b, rv, ecdh, crypt) ==
    [w |-> w, box |-> b, rv |-> rv, ecdh |-> ecdh, crypt |-> crypt]
BoxStop(w, b, ecdh, crypt) ==
    BoxRes([w EXCEPT !.aborted = TRUE], b, "ABORT", ecdh, crypt)

\* piv_box_open that stores the output of cipher_crypt in the box before it
\* looks at the result
piv_box_open_early_store(w, t, slot, b, rs, ub) ==
    LET cipher == cipher_by_name(b.pdb_cipher)
        dgalg == ssh_digest_alg_by_name(b.pdb_kdf)
    IN
    IF b.pdb_cipher = NullPtr \/ b.pdb_kdf = NullPtr
    THEN BoxStop(w, b, "none", "none")
    ELSE IF cipher = NullCipher THEN BoxStop(w, b, "none", "none")
    ELSE IF ssh_digest_bytes(dgalg) < cipher.key_len
    THEN BoxStop(w, b, "none", "none")
    ELSE IF b.pdb_ephem_pub = NullKey THEN BoxStop(w, b, "none", "none")
    ELSE
    Force(piv_ecdh(w, t, slot, b.pdb_ephem_pub, rs, ub), LAMBDA e :
    IF e.rv = "ABORT" THEN BoxStop(e.w, b, "ABORT", "none")
    ELSE IF e.rv # "0" THEN BoxRes(e.w, b, e.rv, e.rv, "none")
    ELSE
    LET key == Digest(dgalg, e.secret)
        enclen == b.pdb_enc.b_size
        plainlen == enclen - cipher.auth_len
        c == cipher_decrypt(cipher, SubSeq(key, 1, cipher.key_len),
                            Bytes(b.pdb_iv), Bytes(b.pdb_enc), plainlen)
    IN
    IF b.pdb_iv.b_size # cipher.iv_len THEN BoxStop(e.w, b, "0", "none")
    ELSE IF b.pdb_iv.b_data = NullPtr THEN BoxStop(e.w, b, "0", "none")
    ELSE IF b.pdb_enc.b_data = NullPtr THEN BoxStop(e.w, b, "0", "none")
    ELSE IF enclen < cipher.auth_len + cipher.block_size
    THEN BoxStop(e.w, b, "0", "none")
    ELSE IF c.rv # "0"
    THEN BoxRes(e.w, [b EXCEPT !.pdb_plain = Buf(c.dest, plainlen)],
                "EBADMSG", "0", c.rv)
    ELSE BoxRes(e.w, [b EXCEPT !.pdb_plain = Buf(c.dest, plainlen)], "0",
                "0", "0"))

\* piv_box_open: rs are the card's replies to piv_ecdh
piv_box_open(w, t, slot, b, rs, ub) ==
    LET cipher == cipher_by_name(b.pdb_cipher)
        dgalg == ssh_digest_alg_by_name(b.pdb_kdf)
    IN
    IF b.pdb_cipher = NullPtr \/ b.pdb_kdf = NullPtr
    THEN BoxStop(w, b, "none", "none")
    ELSE IF cipher = NullCipher THEN BoxStop(w, b, "none", "none")
    ELSE IF ssh_digest_bytes(dgalg) < cipher.key_len
    THEN BoxStop(w, b, "none", "none")
    ELSE IF b.pdb_ephem_pub = NullKey THEN BoxStop(w, b, "none", "none")
    ELSE
    Force(piv_ecdh(w, t, slot, b.pdb_ephem_pub, rs, ub), LAMBDA e :
    IF e.rv = "ABORT" THEN BoxStop(e.w, b, "ABORT", "none")
    ELSE IF e.rv # "0" THEN BoxRes(e.w, b, e.rv, e.rv, "none")
    ELSE
    LET key == Digest(dgalg, e.secret)
        enclen == b.pdb_enc.b_size
        plainlen == enclen - cipher.auth_len
        c == cipher_decrypt(cipher, SubSeq(key, 1, cipher.key_len),
                            Bytes(b.pdb_iv), Bytes(b.pdb_enc), plainlen)
    IN
    IF b.pdb_iv.b_size # cipher.iv_len THEN BoxStop(e.w, b, "0", "none")
    ELSE IF b.pdb_iv.b_data = NullPtr THEN BoxStop(e.w, b, "0", "none")
    ELSE IF b.pdb_enc.b_data = NullPtr THEN BoxStop(e.w, b, "0", "none")
    ELSE IF enclen < cipher.auth_len + cipher.block_size
    THEN BoxStop(e.w, b, "0", "none")
    ELSE IF c.rv # "0" THEN BoxRes(e.w, b, "EBADMSG", "0", c.rv)
    ELSE BoxRes(e.w, [b EXCEPT !.pdb_plain = Buf(c.dest, plainlen)], "0",
                "0", "0"))

\* piv_box_seal
piv_box_seal(tk, slot, b, d, seed, ub) ==
    LET r == piv_box_seal_offline(b, slot.ps_pubkey, d, seed, ub) IN
    IF r.rv # "0" THEN r
    ELSE BoxRet([r.box EXCEPT !.pdb_guid = tk.pt_guid,
                              !.pdb_slot = slot.ps_slot], "0")

(***************************************************************************)
(* piv_read_cert, piv_box_find_token                                       *)
(***************************************************************************)
\* piv_read_cert that leaves the record of a slot it has read before as it
\* is.
piv_read_cert_keep_old(w, t, slotid, rs, ub) ==
    IF ~w.tok[t].pt_intxn THEN Abort(w)
    ELSE IF slotid \notin PivSlots THEN Abort(w)
    ELSE
    Force(piv_apdu_transceive_chain(w, t, rs), LAMBDA a :
    IF a.rv = "ABORT" THEN Abort(a.w)
    ELSE IF a.rv # "0" THEN Ret(a.w, "EIO")
    ELSE IF a.sw = SW_NO_ERROR
    THEN LET body == rs[a.at].body
             key == body.key
             alg == IF key.type = "KEY_ECDSA" /\ key.bits = 256
                    THEN "ECCP256"
                    ELSE IF key.type = "KEY_ECDSA" /\ key.bits = 384
                    THEN "ECCP384"
                    ELSE IF key.type = "KEY_RSA" /\ key.bits = 1024
                    THEN "RSA1024"
                    ELSE IF key.type = "KEY_RSA" /\ key.bits = 2048
                    THEN "RSA2048"
                    ELSE "NULL"
             pc == Slot(slotid, alg, key)
             old == w.tok[t].pt_slots
             new == IF piv_get_slot(w.tok[t], slotid) = NullSlot
                    THEN <<pc>> \o old
                    ELSE old
         IN IF body.tag # 83 THEN Ret(a.w, "ENOTSUP")
            ELSE IF body.ci # "plain" THEN Ret(a.w, "ENOTSUP")
            ELSE IF ~body.has70
            THEN IF ub = "crash" THEN Abort(a.w) ELSE Ret(a.w, "EINVAL")
            ELSE IF key = NullKey THEN Ret(a.w, "EINVAL")
            ELSE IF alg = "NULL" THEN Abort(a.w)
            ELSE Ret([a.w EXCEPT !.tok[t].pt_slots = new], "0")
    ELSE IF a.sw = SW_FILE_NOT_FOUND THEN Ret(a.w, "ENOENT")
    ELSE Ret(a.w, "EINVAL"))

\* piv_read_cert: the body of a reply is [tag, ci, has70, key]: the outer
\* tag, what the byte of tag 0x71 says ("plain", "x509bit" or "gzip"),
\* whether the object holds a tag 0x70, and the public key of the
\* certificate in it (NullKey when d2i_X509 does not accept the bytes).
\* Without a tag 0x70 the pointer and the length given to d2i_X509 were
\* never set: the process is stopped (ub = "crash") or d2i_X509 finds no
\* certificate.  A new slot is put at the head of the list; one that is
\* there already is overwritten in place.
piv_read_cert(w, t, slotid, rs, ub) ==
    IF ~w.tok[t].pt_intxn THEN Abort(w)
    ELSE IF slotid \notin PivSlots THEN Abort(w)
    ELSE
    Force(piv_apdu_transceive_chain(w, t, rs), LAMBDA a :
    IF a.rv = "ABORT" THEN Abort(a.w)
    ELSE IF a.rv # "0" THEN Ret(a.w, "EIO")
    ELSE IF a.sw = SW_NO_ERROR
    THEN LET body == rs[a.at].body
             key == body.key
             alg == IF key.type = "KEY_ECDSA" /\ key.bits = 256
                    THEN "ECCP256"
                    ELSE IF key.type = "KEY_ECDSA" /\ key.bits = 384
                    THEN "ECCP384"
                    ELSE IF key.type = "KEY_RSA" /\ key.bits = 1024
                    THEN "RSA1024"
                    ELSE IF key.type = "KEY_RSA" /\ key.bits = 2048
                    THEN "RSA2048"
                    ELSE "NULL"
             pc == Slot(slotid, alg, key)
             old == w.tok[t].pt_slots
             new == IF piv_get_slot(w.tok[t], slotid) = NullSlot
                    THEN <<pc>> \o old
                    ELSE [i \in 1..Len(old) |->
                            IF old[i].ps_slot = slotid
                               /\ \A j \in 1..(i - 1) :
                                    old[j].ps_slot # slotid
                            THEN pc ELSE old[i]]
         IN IF body.tag # 83 THEN Ret(a.w, "ENOTSUP")
            ELSE IF body.ci # "plain" THEN Ret(a.w, "ENOTSUP")
            ELSE IF ~body.has70
            THEN IF ub = "crash" THEN Abort(a.w) ELSE Ret(a.w, "EINVAL")
            ELSE IF key = NullKey THEN Ret(a.w, "EINVAL")
            ELSE IF alg = "NULL" THEN Abort(a.w)
            ELSE Ret([a.w EXCEPT !.tok[t].pt_slots = new], "0")
    ELSE IF a.sw = SW_FILE_NOT_FOUND THEN Ret(a.w, "ENOENT")
    ELSE Ret(a.w, "EINVAL"))

\* The read of a certificate by piv_box_find_token without the piv_txn_end.
read_cert_in_txn_no_end(w, pt, slotid, in) ==
    Force(piv_txn_begin(w, pt, in.begin), LAMBDA b :
    IF b.rv # "0" THEN b
    ELSE piv_read_cert(b.w, pt, slotid, in.rs, in.ub))

\* piv_box_find_token reads a certificate it has not got: piv_txn_begin,
\* piv_read_cert, piv_txn_end.  in = [begin, rs, ub, end] are the answers
\* of the token's reader and card.
read_cert_in_txn(w, pt, slotid, in) ==
    Force(piv_txn_begin(w, pt, in.begin), LAMBDA b :
    IF b.rv # "0" THEN b
    ELSE
    Force(piv_read_cert(b.w, pt, slotid, in.rs, in.ub), LAMBDA c :
    IF c.rv = "ABORT" THEN c
    ELSE
    Force(piv_txn_end(c.w, pt, in.end), LAMBDA e :
    IF e.rv = "ABORT" THEN e ELSE Ret(e.w, c.rv))))

\* The result of piv_box_find_token: *tk and *slot with it; NONE and
\* NullSlot are what the caller had put there.
Found(w, rv, pt, s) == [w |-> w, rv |-> rv, tk |-> pt, slot |-> s]

\* piv_box_find_token when no token has the GUID of the box: the loop over
\* the tokens, from the i-th on
RECURSIVE find_by_key(_, _, _, _, _)
find_by_key(w, b, slotid, i, ins) ==
    IF i > Len(w.tks) THEN Found(w, "ENOENT", NONE, NullSlot)
    ELSE
    LET pt == w.tks[i] IN
    Force(IF piv_get_slot(w.tok[pt], slotid) = NullSlot
          THEN read_cert_in_txn(w, pt, slotid, ins[pt])
          ELSE Ret(w, "0"), LAMBDA r :
    IF r.rv = "ABORT" THEN Found(r.w, "ABORT", NONE, NullSlot)
    ELSE IF r.rv # "0" THEN find_by_key(r.w, b, slotid, i + 1, ins)
    ELSE LET s == piv_get_slot(r.w.tok[pt], slotid) IN
         IF sshkey_equal_public(s.ps_pubkey, b.pdb_pub)
         THEN Found(r.w, "0", pt, s)
         ELSE find_by_key(r.w, b, slotid, i + 1, ins))

\* piv_box_find_token that takes the slot of the token with the GUID of the
\* box for the slot of the box, whatever key is in it
piv_box_find_token_any_key(w, b, ins) ==
    LET match == {i \in 1..Len(w.tks) :
                    w.tok[w.tks[i]].pt_guid = b.pdb_guid}
    IN
    IF match = {}
    THEN find_by_key(w, b, IF b.pdb_slot = 0 \/ b.pdb_slot = 255
                           THEN PIV_SLOT_KEY_MGMT ELSE b.pdb_slot, 1, ins)
    ELSE
    LET pt == w.tks[CHOOSE i \in match : \A j \in match : i <= j] IN
    Force(IF piv_get_slot(w.tok[pt], b.pdb_slot) = NullSlot
          THEN read_cert_in_txn(w, pt, b.pdb_slot, ins[pt])
          ELSE Ret(w, "0"), LAMBDA r :
    IF r.rv # "0" THEN Found(r.w, r.rv, NONE, NullSlot)
    ELSE Found(r.w, "0", pt, piv_get_slot(r.w.tok[pt], b.pdb_slot)))

\* piv_box_find_token: ins[pt] are the answers of the reader and the card
\* of token pt, should its certificate be read.
piv_box_find_token(w, b, ins) ==
    LET match == {i \in 1..Len(w.tks) :
                    w.tok[w.tks[i]].pt_guid = b.pdb_guid}
    IN
    IF match = {}
    THEN find_by_key(w, b, IF b.pdb_slot = 0 \/ b.pdb_slot = 255
                           THEN PIV_SLOT_KEY_MGMT ELSE b.pdb_slot, 1, ins)
    ELSE
    LET pt == w.tks[CHOOSE i \in match : \A j \in match : i <= j] IN
    Force(IF piv_get_slot(w.tok[pt], b.pdb_slot) = NullSlot
          THEN read_cert_in_txn(w, pt, b.pdb_slot, ins[pt])
          ELSE Ret(w, "0"), LAMBDA r :
    IF r.rv # "0" THEN Found(r.w, r.rv, NONE, NullSlot)
    ELSE LET s == piv_get_slot(r.w.tok[pt], b.pdb_slot) IN
         IF ~sshkey_equal_public(s.ps_pubkey, b.pdb_pub)
         THEN Found(r.w, "ENOENT", NONE, NullSlot)
         ELSE Found(r.w, "0", pt, s))
\* BOXOPS

(***************************************************************************)
(* The answers of the reader library and of the card that the model draws: *)
(* what the card in the reader holds, a failure of the reader, or a reply  *)
(* the operation does not expect.                                          *)
(***************************************************************************)
MaxTries == 2

NoReply == Reply(SCARD_E_FAILED, 0, NULL)
Answer(sw) == Reply(SCARD_S_SUCCESS, sw, NULL)
Data(body) == Reply(SCARD_S_SUCCESS, SW_NO_ERROR, body)

\* Replies to VERIFY and CHANGE REFERENCE DATA
PinReplies ==
    {NoReply, Answer(SW_NO_ERROR), Answer(SW_WRONG_DATA)}
    \cup {Answer(SW_INCORRECT_PIN + x) : x \in 0..MaxTries}
RetriesArgs == {NONE} \cup 0..MaxTries
\* The replies to the two VERIFYs of piv_verify_pin that it reads
VerifyReplies(retries) ==
    IF retries = NONE \/ retries = 0
    THEN {<<NoReply, r2>> : r2 \in PinReplies}
    ELSE {<<r1, NoReply>> : r1 \in PinReplies}
         \cup {<<Answer(SW_INCORRECT_PIN + retries + 1), r2>> :
                 r2 \in PinReplies}

\* Replies to GENERAL AUTHENTICATE of piv_auth_admin
Challenge(tg, n) == Data([tag |-> tg, challen |-> n])
ChallengeReplies ==
    {NoReply, Answer(SW_INCORRECT_P1P2), Challenge(126, DES3_BLOCKSZ),
     Challenge(124, NONE), Challenge(124, 16)}
ResponseReplies ==
    {NoReply, Answer(SW_NO_ERROR), Answer(SW_INCORRECT_P1P2),
     Answer(SW_WRONG_DATA), Answer(SW_SECURITY_STATUS_NOT_SATISFIED)}
\* The replies to the two APDUs of piv_auth_admin that it reads
AdminReplies ==
    {<<r1, NoReply>> : r1 \in ChallengeReplies}
    \cup {<<Challenge(124, DES3_BLOCKSZ), r2>> : r2 \in ResponseReplies}
AdminKeyLens == {DES3_KEYLEN, 16}

\* Replies to SELECT
SelectReplies ==
    {NoReply, Answer(SW_FILE_NOT_FOUND), Data("apt"), Data("badtag"),
     Data("unknown"), Data("badalg")}

\* Replies to GET DATA of the CHUID: what the card holds, and the others
ChuidBody(tg, has, g, unk) ==
    [tag |-> tg, has34 |-> has, guid |-> g, unknown |-> unk]
CardChuid(r) ==
    IF card[r].chuid = "absent" THEN Answer(SW_FILE_NOT_FOUND)
    ELSE IF card[r].chuid = "noguid"
    THEN Data(ChuidBody(83, FALSE, <<>>, FALSE))
    ELSE Data(ChuidBody(83, TRUE, Guid(r), FALSE))
ChuidReplies(r) ==
    {CardChuid(r), NoReply, Answer(SW_WRONG_DATA),
     Data(ChuidBody(48, FALSE, <<>>, FALSE)),
     Data(ChuidBody(83, FALSE, <<>>, TRUE)),
     Data(ChuidBody(83, TRUE, <<1, 2>>, FALSE))}

\* Replies to GET VERSION
CardVersion(r) ==
    IF card[r].yk THEN Data(3) ELSE Answer(SW_FUNC_NOT_SUPPORTED)
VersionReplies(r) == {CardVersion(r), NoReply}

EnumOutcome(cn, bg, sl, ch, yk, en) ==
    [connect |-> cn, begin |-> bg, select |-> sl, chuid |-> ch, yk |-> yk,
     end |-> en]
\* The answers of reader r to piv_enumerate, one for each path through the
\* loop body: the answers to calls that are not made are left out.
EnumOutcomes(r) ==
    {EnumOutcome(cn, SCARD_S_SUCCESS, NoReply, NoReply, NoReply,
                 SCARD_S_SUCCESS) : cn \in {"fail", "badproto"}}
    \cup {EnumOutcome("ok", SCARD_E_FAILED, NoReply, NoReply, NoReply,
                      SCARD_S_SUCCESS)}
    \cup {EnumOutcome("ok", SCARD_S_SUCCESS, sl, NoReply, NoReply,
                      SCARD_S_SUCCESS) : sl \in SelectReplies \ {Data("apt")}}
    \cup {EnumOutcome("ok", SCARD_S_SUCCESS, Data("apt"), ch, NoReply,
                      SCARD_S_SUCCESS) :
            ch \in ChuidReplies(r) \ {CardChuid(r)}}
    \cup {EnumOutcome("ok", SCARD_S_SUCCESS, Data("apt"), CardChuid(r), yk,
                      en) :
            yk \in VersionReplies(r), en \in SCardResults}
AllEnumOutcomes ==
    {os \in [Readers -> UNION {EnumOutcomes(r) : r \in Readers}] :
       \A r \in Readers : os[r] \in EnumOutcomes(r)}

\* A card with a CHUID that holds a GUID, and the YubiKey extensions, and no
\* keys
CardYubiKey ==
    [chuid |-> "guid", yk |-> TRUE, slots |-> [s \in PivSlots |-> 0]]

Listed(t) == \E i \in 1..Len(tks) : tks[i] = t

Commit(w) ==
    /\ tks' = w.tks
    /\ tok' = w.tok
    /\ rdr' = w.rdr
    /\ obs' = w.obs
    /\ tx_outside' = w.tx_outside
    /\ aborted' = w.aborted

\* The record of a call: the operation, the token, the value returned, and
\* the token's in-transaction flag when it was called.
Called(op, t, rv) ==
    [op |-> op, tk |-> t, rv |-> rv,
     intxn |-> IF t \in Readers THEN tok[t].pt_intxn ELSE FALSE]

(***************************************************************************)
(* Actions: one call of a public function                                  *)
(***************************************************************************)
Call_piv_enumerate ==
    /\ ~aborted /\ tks = <<>>
    /\ \E os \in AllEnumOutcomes :
         LET res == piv_enumerate(World, os) IN
         /\ Commit(res.w)
         /\ UNCHANGED <<card, box, gh, ser, out>>
         /\ last' = Called("piv_enumerate", 0, res.rv)

Call_piv_release ==
    /\ ~aborted /\ tks # <<>>
    /\ LET res == piv_release(World) IN
       /\ Commit(res.w)
       /\ UNCHANGED <<card, box, gh, ser, out>>
       /\ last' = Called("piv_release", 0, res.rv)

Call_piv_txn_begin(t) ==
    /\ ~aborted /\ Listed(t)
    /\ \E rv \in SCardResults :
         LET res == piv_txn_begin(World, t, rv) IN
         /\ Commit(res.w)
         /\ UNCHANGED <<card, box, gh, ser, out>>
         /\ last' = Called("piv_txn_begin", t, res.rv)

Call_piv_txn_end(t) ==
    /\ ~aborted /\ Listed(t)
    /\ \E rv \in SCardResults :
         LET res == piv_txn_end(World, t, rv) IN
         /\ Commit(res.w)
         /\ UNCHANGED <<card, box, gh, ser, out>>
         /\ last' = Called("piv_txn_end", t, res.rv)

Call_piv_verify_pin(t) ==
    /\ ~aborted /\ Listed(t)
    /\ \E retries \in RetriesArgs : \E rs \in VerifyReplies(retries) :
         LET res == piv_verify_pin(World, t, retries, rs[1], rs[2]) IN
         /\ Commit(res.w)
         /\ UNCHANGED <<card, box, gh, ser, out>>
         /\ last' = Called("piv_verify_pin", t, res.rv)

Call_piv_change_pin(t) ==
    /\ ~aborted /\ Listed(t)
    /\ \E r \in PinReplies :
         LET res == piv_change_pin(World, t, r) IN
         /\ Commit(res.w)
         /\ UNCHANGED <<card, box, gh, ser, out>>
         /\ last' = Called("piv_change_pin", t, res.rv)

Call_piv_auth_admin(t) ==
    /\ ~aborted /\ Listed(t)
    /\ \E keylen \in AdminKeyLens, rs \in AdminReplies :
         LET res == piv_auth_admin(World, t, keylen, rs[1], rs[2]) IN
         /\ Commit(res.w)
         /\ UNCHANGED <<card, box, gh, ser, out>>
         /\ last' = Called("piv_auth_admin", t, res.rv)

(***************************************************************************)
(* piv_enumerate and readers that fail                                     *)
(***************************************************************************)
\* The answers of reader r to piv_enumerate when its card is in order: the
\* reader fails to connect, to begin the transaction, or to pass on one of
\* the three APDUs, or it does all of them.
ReaderOutcomes(r) ==
    {EnumOutcome("fail", SCARD_S_SUCCESS, NoReply, NoReply, NoReply,
                 SCARD_S_SUCCESS),
     EnumOutcome("ok", SCARD_E_FAILED, NoReply, NoReply, NoReply,
                 SCARD_S_SUCCESS),
     EnumOutcome("ok", SCARD_S_SUCCESS, NoReply, NoReply, NoReply,
                 SCARD_S_SUCCESS),
     EnumOutcome("ok", SCARD_S_SUCCESS, Data("apt"), NoReply, NoReply,
                 SCARD_S_SUCCESS),
     EnumOutcome("ok", SCARD_S_SUCCESS, Data("apt"), CardChuid(r), NoReply,
                 SCARD_S_SUCCESS),
     EnumOutcome("ok", SCARD_S_SUCCESS, Data("apt"), CardChuid(r),
                 CardVersion(r), SCARD_S_SUCCESS)}
\* The step of the loop body that fails with the answers o.
FailedStep(o) ==
    IF o.connect # "ok" THEN "connect"
    ELSE IF o.begin # SCARD_S_SUCCESS THEN "begin"
    ELSE IF o.select.io # SCARD_S_SUCCESS THEN "select"
    ELSE IF o.chuid.io # SCARD_S_SUCCESS THEN "chuid"
    ELSE IF o.yk.io # SCARD_S_SUCCESS THEN "version"
    ELSE "none"

\* piv_enumerate with such readers; recorded is the step that failed on
\* each.
Call_piv_enumerate_readers ==
    /\ ~aborted /\ tks = <<>>
    /\ \E os \in {f \in [Readers -> UNION {ReaderOutcomes(r) : r \in Readers}] :
                    \A r \in Readers : f[r] \in ReaderOutcomes(r)} :
       \E res \in {piv_enumerate(World, os)} :
         /\ Commit(res.w)
         /\ out' = [op |-> "enumerate",
                    failed |-> [r \in Readers |-> FailedStep(os[r])]]
         /\ last' = Called("piv_enumerate", 0, res.rv)
         /\ UNCHANGED <<card, box, gh, ser>>

(***************************************************************************)
(* The caller of the sealed box: its inputs and its calls                  *)
(***************************************************************************)
MaxPlainLen == 2
PlainBytes == {7}
\* A plaintext as long as the block of the block cipher
BlockText == [i \in 1..16 |-> 64 + i]
Plaintexts ==
    {BlockText} \cup UNION {[1..n -> PlainBytes] : n \in 1..MaxPlainLen}

\* The cipher and the digest the caller names for a box: a block cipher with
\* a digest that is long enough for its key, and the stream cipher with one
\* that is too short
BoxAlgs == {<<STR_aes128_gcm, STR_sha256>>,
            <<STR_chacha20_poly1305, STR_sha256>>}
\* The key pairs of the recipients that hold their key off the card
RecipientKeys == {SshKey(256, 3, 3), SshKey(384, 5, 5)}
\* The scalars sshkey_generate draws, the scalar of a key that is put in
\* the place of an ephemeral key, and what arc4random_buf writes
EphScalars == {7}
OtherScalars == {11}
IvSeeds == {1}
\* What the build makes of undefined behaviour
UbOutcomes(undefined) == IF undefined THEN {"crash", "quiet"} ELSE {"quiet"}

ZeroGh == [sealed |-> FALSE, how |-> "none", plain |-> <<>>, pubk |-> NullKey,
           tampered |-> FALSE, opened |-> "no"]
ZeroSer == [bytes |-> NullPtr, of |-> piv_box_new]
ZeroOut == [op |-> "none"]

\* The replies of the card in reader t to the GENERAL AUTHENTICATE of
\* piv_ecdh for the slot and the point q: the card multiplies the point by
\* the slot's private scalar.
EcdhBody(tg, inner, sec) == [tag |-> tg, inner |-> inner, sec |-> sec]
CardSecret(t, slotid, q) ==
    [i \in 1..FieldBytes(256) |-> (card[t].slots[slotid] * q) % 256]
EcdhReplies(t, slotid, q) ==
    {<<NoReply>>, <<Answer(SW_SECURITY_STATUS_NOT_SATISFIED)>>,
     <<Answer(SW_WRONG_DATA)>>,
     <<Data(EcdhBody(48, 0, <<>>))>>,
     <<Data(EcdhBody(124, 129, <<>>))>>,
     <<Data(EcdhBody(124, GA_TAG_RESPONSE, CardSecret(t, slotid, q)))>>,
     <<Data(EcdhBody(124, GA_TAG_RESPONSE, <<>>))>>,
     <<Answer(SW_BYTES_REMAINING_00 + 32),
       Data(EcdhBody(124, GA_TAG_RESPONSE, CardSecret(t, slotid, q)))>>,
     <<Answer(SW_BYTES_REMAINING_00 + 32), NoReply>>}

\* The call of a box function that touches no token
BoxCommit(b, rv) ==
    /\ box' = b
    /\ aborted' = (rv = "ABORT")
    /\ UNCHANGED tokvars

Call_piv_box_new ==
    /\ ~aborted /\ box # piv_box_new
    /\ BoxCommit(piv_box_new, "box")
    /\ gh' = ZeroGh /\ ser' = ZeroSer /\ out' = ZeroOut
    /\ last' = Called("piv_box_new", 0, "box")

\* The caller names the cipher and the digest of a new box
Set_pdb_cipher ==
    /\ ~aborted /\ box = piv_box_new
    /\ \E a \in BoxAlgs :
         BoxCommit([box EXCEPT !.pdb_cipher = a[1], !.pdb_kdf = a[2]], "void")
    /\ UNCHANGED <<gh, ser, out>>
    /\ last' = Called("pdb_cipher", 0, "void")

Call_piv_box_set_data ==
    /\ ~aborted /\ ~gh.sealed
    /\ \E data \in Plaintexts, mem \in BOOLEAN :
         LET res == piv_box_set_data(box, data, mem) IN
         /\ BoxCommit(res.box, res.rv)
         /\ last' = Called("piv_box_set_data", 0, res.rv)
    /\ ser' = ZeroSer /\ out' = ZeroOut
    /\ gh' = [gh EXCEPT !.opened = "no"]

\* Whether the box is one piv_box_seal_offline is meant for: it holds a
\* plaintext, and its cipher and digest, or the defaults, go together
Sealable(b) ==
    LET cipher == cipher_by_name(IF b.pdb_cipher = NullPtr
                                 THEN STR_chacha20_poly1305
                                 ELSE b.pdb_cipher)
        dgalg == ssh_digest_alg_by_name(IF b.pdb_kdf = NullPtr
                                        THEN STR_sha512 ELSE b.pdb_kdf)
    IN /\ b.pdb_plain.b_data # NullPtr /\ b.pdb_plain.b_size > 0
       /\ cipher # NullCipher
       /\ ssh_digest_bytes(dgalg) >= cipher.key_len

Call_piv_box_seal_offline ==
    /\ ~aborted /\ ~gh.sealed
    /\ \E pubk \in RecipientKeys, d \in EphScalars, seed \in IvSeeds :
       \E ub \in UbOutcomes(pubk.bits # 256) :
         LET res == piv_box_seal_offline(box, sshkey_demote(pubk), d, seed,
                                         ub) IN
         /\ BoxCommit(res.box, res.rv)
         /\ last' = Called("piv_box_seal_offline", 0, res.rv)
         /\ gh' = IF res.rv = "0"
                  THEN [sealed |-> TRUE, how |-> "offline",
                        plain |-> Bytes(box.pdb_plain),
                        pubk |-> sshkey_demote(pubk), tampered |-> FALSE,
                        opened |-> "no"]
                  ELSE gh
         /\ out' = [op |-> "seal", ready |-> Sealable(box)]
    /\ ser' = ZeroSer

Call_piv_box_seal(t) ==
    /\ ~aborted /\ ~gh.sealed /\ Listed(t) /\ tok[t].pt_slots # <<>>
    /\ \E i \in 1..Len(tok[t].pt_slots), d \in EphScalars, seed \in IvSeeds :
         LET slot == tok[t].pt_slots[i]
             res == piv_box_seal(tok[t], slot, box, d, seed, "quiet") IN
         /\ BoxCommit(res.box, res.rv)
         /\ last' = Called("piv_box_seal", t, res.rv)
         /\ gh' = IF res.rv = "0"
                  THEN [sealed |-> TRUE, how |-> "card",
                        plain |-> Bytes(box.pdb_plain),
                        pubk |-> slot.ps_pubkey, tampered |-> FALSE,
                        opened |-> "no"]
                  ELSE gh
         /\ out' = [op |-> "seal", ready |-> Sealable(box)]
    /\ ser' = ZeroSer

\* Someone who holds the sealed box alters it: a byte of the ciphertext or
\* of the tag, a byte of the IV, or the ephemeral public key
FlipByte(buf, i) ==
    [buf EXCEPT !.b_data[i] = (@ + 1) % 256]
Tampered(b) ==
    {[b EXCEPT !.pdb_enc = FlipByte(@, i)] : i \in {1, b.pdb_enc.b_size}}
    \cup {[b EXCEPT !.pdb_iv = FlipByte(@, i)] : i \in 1..b.pdb_iv.b_size}
    \cup {[b EXCEPT !.pdb_ephem_pub.q = d] :
            d \in OtherScalars}
Tamper ==
    /\ ~aborted /\ gh.sealed /\ ~gh.tampered
    /\ \E b \in Tampered(box) : BoxCommit(b, "void")
    /\ gh' = [gh EXCEPT !.tampered = TRUE, !.opened = "no"]
    /\ ser' = ZeroSer /\ out' = ZeroOut
    /\ last' = Called("tamper", 0, "void")

Call_piv_box_open_offline ==
    /\ ~aborted /\ gh.sealed
    /\ \E privkey \in RecipientKeys :
       \E ub \in UbOutcomes(box.pdb_ephem_pub.bits # privkey.bits) :
         LET res == piv_box_open_offline(box, privkey, ub) IN
         /\ BoxCommit(res.box, res.rv)
         /\ last' = Called("piv_box_open_offline", 0, res.rv)
         /\ out' = [op |-> "open",
                    owner |-> sshkey_equal_public(privkey, gh.pubk),
                    pre_plain |-> box.pdb_plain]
         /\ gh' = [gh EXCEPT !.opened =
                     IF res.rv = "0" /\ ~gh.tampered
                        /\ sshkey_equal_public(privkey, gh.pubk)
                     THEN "offline" ELSE "no"]
    /\ ser' = ZeroSer

Call_piv_box_open(t) ==
    /\ ~aborted /\ gh.sealed /\ Listed(t) /\ tok[t].pt_slots # <<>>
    /\ \E i \in 1..Len(tok[t].pt_slots) :
       LET slot == tok[t].pt_slots[i] IN
       \E rs \in EcdhReplies(t, slot.ps_slot, box.pdb_ephem_pub.q) :
       \E ub \in UbOutcomes(rs[1].io = SCARD_S_SUCCESS
                             /\ rs[1].sw = SW_NO_ERROR
                             /\ rs[1].body.tag # 124) :
         LET res == piv_box_open(World, t, slot, box, rs, ub) IN
         /\ Commit(res.w)
         /\ box' = res.box
         /\ UNCHANGED card
         /\ last' = Called("piv_box_open", t, res.rv)
         /\ out' = [op |-> "open",
                    owner |-> sshkey_equal_public(slot.ps_pubkey, gh.pubk),
                    pre_plain |-> box.pdb_plain,
                    ecdh |-> res.ecdh, crypt |-> res.crypt]
         /\ gh' = [gh EXCEPT !.opened =
                     IF res.rv = "0" /\ ~gh.tampered
                        /\ sshkey_equal_public(slot.ps_pubkey, gh.pubk)
                     THEN "card" ELSE "no"]
    /\ ser' = ZeroSer

Call_piv_box_take_data ==
    /\ ~aborted /\ gh.sealed
    /\ LET res == piv_box_take_data(box) IN
       /\ BoxCommit(res.box, res.rv)
       /\ last' = Called("piv_box_take_data", 0, res.rv)
       /\ out' = [op |-> "take", data |-> res.data, len |-> res.len,
                  opened |-> gh.opened]
    /\ gh' = [gh EXCEPT !.opened = "no"]
    /\ ser' = ZeroSer

Call_piv_box_to_binary ==
    /\ ~aborted /\ gh.sealed /\ ser = ZeroSer
    /\ LET res == piv_box_to_binary(box) IN
       /\ BoxCommit(box, res.rv)
       /\ last' = Called("piv_box_to_binary", 0, res.rv)
       /\ ser' = IF res.rv = "0" THEN [bytes |-> res.output, of |-> box]
                 ELSE ser
    /\ out' = ZeroOut
    /\ UNCHANGED gh

\* The inputs piv_box_from_binary is given: the bytes piv_box_to_binary
\* returned, those bytes with the last one missing, and with another version
BinaryInputs ==
    {[kind |-> "whole", bytes |-> ser.bytes],
     [kind |-> "short", bytes |-> SubSeq(ser.bytes, 1, Len(ser.bytes) - 1)],
     [kind |-> "version", bytes |-> [ser.bytes EXCEPT ![1] = 2]]}
Call_piv_box_from_binary ==
    /\ ~aborted /\ ser # ZeroSer
    /\ \E input \in BinaryInputs :
         LET res == piv_box_from_binary(input.bytes) IN
         /\ BoxCommit(IF res.rv = "0" THEN res.box ELSE box, res.rv)
         /\ last' = Called("piv_box_from_binary", 0, res.rv)
         /\ out' = [op |-> "from_binary", input |-> input.kind,
                    pbox |-> res.box]
    /\ UNCHANGED <<gh, ser>>

(***************************************************************************)
(* Certificates and the lookup of the token of a box                       *)
(***************************************************************************)
\* Replies to GET DATA for the certificate of a slot: what the card holds,
\* and replies that piv_read_cert does not accept
CardCert(t, slotid) ==
    IF slotid \notin PivSlots \/ card[t].slots[slotid] = 0
    THEN Answer(SW_FILE_NOT_FOUND)
    ELSE Data([tag |-> 83, ci |-> "plain", has70 |-> TRUE,
               key |-> SshKey(256, card[t].slots[slotid], 0)])
CertReplies(t, slotid) ==
    {<<CardCert(t, slotid)>>, <<NoReply>>, <<Answer(SW_WRONG_DATA)>>,
     <<Answer(SW_BYTES_REMAINING_00 + 16), CardCert(t, slotid)>>}
    \cup {<<Data([tag |-> tg, ci |-> ci, has70 |-> has, key |-> k])>> :
            tg \in {48, 83}, ci \in {"plain", "x509bit", "gzip"},
            has \in BOOLEAN,
            k \in {NullKey, SshKey(521, 9, 0)}}

\* The answers to piv_box_find_token of the reader and the card of token t.
\* The call records (sound) whether every reader began a transaction and
\* every card gave the certificate it holds, the tokens that were in a
\* transaction when it was made (intxn) and those whose certificate of the
\* slot had been read before (cached).
FindAnswers(t, slotid) ==
    {[begin |-> SCARD_E_FAILED, rs |-> <<NoReply>>, ub |-> "quiet",
      end |-> SCARD_S_SUCCESS]}
    \cup {[begin |-> SCARD_S_SUCCESS, rs |-> rs, ub |-> "quiet",
           end |-> SCARD_S_SUCCESS] :
            rs \in {<<CardCert(t, slotid)>>, <<NoReply>>}}
    \cup {[begin |-> SCARD_S_SUCCESS,
           rs |-> <<Data([tag |-> 83, ci |-> "plain", has70 |-> FALSE,
                          key |-> NullKey])>>,
           ub |-> ub, end |-> SCARD_S_SUCCESS] : ub \in UbOutcomes(TRUE)}

Call_piv_read_cert(t) ==
    /\ ~aborted /\ Listed(t)
    /\ \E slotid \in {PIV_SLOT_KEY_MGMT, 154} :
       \E rs \in CertReplies(t, slotid) :
       \E ub \in UbOutcomes(rs[1].io = SCARD_S_SUCCESS
                            /\ rs[1].sw = SW_NO_ERROR
                            /\ ~rs[1].body.has70) :
         LET res == piv_read_cert(World, t, slotid, rs, ub) IN
         /\ Commit(res.w)
         /\ UNCHANGED <<card, box, gh, ser, out>>
         /\ last' = Called("piv_read_cert", t, res.rv)

Call_piv_box_find_token ==
    /\ ~aborted /\ gh.sealed /\ tks # <<>>
    /\ LET slotid == IF box.pdb_slot = 0 \/ box.pdb_slot = 255
                     THEN PIV_SLOT_KEY_MGMT ELSE box.pdb_slot
           all == UNION {FindAnswers(t, slotid) : t \in Readers}
       IN
       \E ins \in {f \in [Readers -> all] :
                     \A t \in Readers : f[t] \in FindAnswers(t, slotid)} :
         LET res == piv_box_find_token(World, box, ins) IN
         /\ Commit(res.w)
         /\ UNCHANGED <<card, box, gh, ser>>
         /\ out' = [op |-> "find", tk |-> res.tk, slot |-> res.slot,
                     sound |-> \A t \in Readers :
                        /\ ins[t].begin = SCARD_S_SUCCESS
                        /\ ins[t].rs = <<CardCert(t, slotid)>>,
                     intxn |-> {t \in Readers : tok[t].pt_intxn},
                     cached |-> {t \in Readers :
                        piv_get_slot(tok[t], slotid) # NullSlot}]
         /\ last' = Called("piv_box_find_token", 0, res.rv)

(***************************************************************************)
(* The PIN and a card that counts the tries                                *)
(***************************************************************************)
\* The replies of the card in reader t to the two VERIFYs of one
\* piv_verify_pin: to the one without data 63Cx, x the tries that are left;
\* to the one with the PIN 9000 when the PIN is right, 63Cx with one try
\* less when it is wrong, and 6983 when no try was left.
CardVerify(t, pin) ==
    <<Answer(SW_INCORRECT_PIN + card[t].tries),
      IF card[t].tries = 0 THEN Answer(27011)
      ELSE IF pin = "right" THEN Answer(SW_NO_ERROR)
      ELSE Answer(SW_INCORRECT_PIN + card[t].tries - 1)>>

\* The characters of the PINs the caller tries.
PinChars(pin) ==
    IF pin = "right" THEN <<49, 50, 51, 52, 53, 54>> ELSE <<48, 48, 48, 48>>

\* piv_verify_pin: the bytes of the local pinbuf when the function returns.
\* The buffer is set to 0xFF and to the characters of the PIN before the
\* first APDU, and none of the statements up to any of the returns writes
\* to it again.
verify_pin_pinbuf(pin) ==
    [i \in 1..8 |-> IF i <= Len(pin) THEN pin[i] ELSE 255]

\* piv_verify_pin against that card; either reply may be lost on the way
\* or be a status the card gives for another reason.  The card counts a
\* PIN that reached it.  Recorded: the last value the call stored in
\* *retries after a wrong PIN (reported), and the one before that (prev),
\* since the last right PIN.
Call_piv_verify_pin_card(t) ==
    /\ ~aborted /\ Listed(t) /\ tok[t].pt_intxn
    /\ \E retries \in RetriesArgs, pin \in {"right", "wrong"} :
       \E r1 \in {CardVerify(t, pin)[1], NoReply, Answer(SW_WRONG_DATA)},
          r2 \in {CardVerify(t, pin)[2], NoReply, Answer(SW_WRONG_DATA)} :
         LET res == piv_verify_pin(World, t, retries, r1, r2)
             counted == /\ res.sent # <<>>
                        /\ res.sent[Len(res.sent)] = "pin"
                        /\ r2 = CardVerify(t, pin)[2]
                        /\ card[t].tries > 0
         IN
         /\ Commit(res.w)
         /\ card' = IF ~counted THEN card
                    ELSE [card EXCEPT ![t].tries =
                            IF pin = "right" THEN MaxTries + 1 ELSE @ - 1]
         /\ out' = [op |-> "verify", retries |-> retries, r1 |-> r1,
                    r2 |-> r2, sent |-> res.sent, stored |-> res.retries,
                    tries |-> card[t].tries,
                    pinbuf |-> verify_pin_pinbuf(PinChars(pin))]
         /\ gh' = IF res.rv = "EACCES" /\ retries # NONE
                  THEN [reported |-> res.retries, prev |-> gh.reported]
                  ELSE IF res.rv = "0"
                  THEN [reported |-> NONE, prev |-> NONE]
                  ELSE gh
         /\ last' = Called("piv_verify_pin", t, res.rv)
    /\ UNCHANGED <<box, ser>>

(***************************************************************************)
(* APDUs as bytes: the TLV writer and reader, a card that stores data      *)
(* objects, and the chaining layer over it                                 *)
(***************************************************************************)
CLA_ISO == 0
CLA_CHAIN == 16                             \* 0x10
INS_GET_DATA == 203                         \* 0xCB
INS_PUT_DATA == 219                         \* 0xDB
INS_CONTINUE == 192                         \* 0xC0
SW_WARNING_NO_CHANGE_00 == 25088            \* 0x6200
SW_WARNING_00 == 25344                      \* 0x6300
SW_OUT_OF_MEMORY == 27268                   \* 0x6A84
\* The reply buffer piv_apdu_transceive allocates: "a large pre-sized
\* buffer" that takes the segments of a chained reply one after another.
MAX_APDU_SIZE == 16384

\* The data object of the certificate of a slot.
PIV_TAG_CERT(slotid) ==
    IF slotid = 154 THEN 6275333            \* 9A: 0x5FC105
    ELSE IF slotid = 156 THEN 6275338       \* 9C: 0x5FC10A
    ELSE IF slotid = 157 THEN 6275339       \* 9D: 0x5FC10B
    ELSE 6275329                            \* 9E: 0x5FC101

\* tlv_write_uint: big-endian, as few bytes as the value needs.
RECURSIVE UintBytes(_)
UintBytes(n) == IF n < 256 THEN <<n>> ELSE UintBytes(n \div 256) \o <<n % 256>>

\* The length field of a BER-TLV: one byte below 128, 0x81 and one byte
\* below 256, 0x82 and two bytes above.
LenWidth(n) == IF n < 128 THEN 1 ELSE IF n < 256 THEN 2 ELSE 3
LenField(n, width) ==
    IF width = 1 THEN <<n>>
    ELSE IF width = 2 THEN <<129, n>>
    ELSE <<130, n \div 256, n % 256>>

\* tlv_pushl(tag, hint) ... tlv_pop: the length field is reserved for a value
\* of hint bytes and filled in with the length of the value when the tag is
\* closed.
tlv_pushl(tag, hint, value) ==
    LET width == IF LenWidth(hint) > LenWidth(Len(value))
                 THEN LenWidth(hint) ELSE LenWidth(Len(value))
    IN UintBytes(tag) \o LenField(Len(value), width) \o value

\* tlv_push(tag) ... tlv_pop
tlv_push(tag, value) == tlv_pushl(tag, Len(value), value)

\* tlv_read_tag at byte pos of b (1-based): the tag, where its value starts
\* and how long it is.  ok is FALSE when the bytes do not hold a whole tag.
tlv_read_tag(b, pos) ==
    LET two == pos <= Len(b) /\ b[pos] % 32 = 31
        lp == IF two THEN pos + 2 ELSE pos + 1
        l0 == IF lp <= Len(b) THEN b[lp] ELSE 255
        w == IF l0 < 128 THEN 1 ELSE IF l0 = 129 THEN 2
             ELSE IF l0 = 130 THEN 3 ELSE 0
        fits == w > 0 /\ lp + w - 1 <= Len(b)
        len == IF ~fits THEN 0
               ELSE IF w = 1 THEN l0
               ELSE IF w = 2 THEN b[lp + 1]
               ELSE b[lp + 1] * 256 + b[lp + 2]
    IN [ok |-> fits /\ lp + w + len - 1 <= Len(b),
        tag |-> IF ~fits THEN 0
                ELSE IF two THEN b[pos] * 256 + b[pos + 1] ELSE b[pos],
        start |-> lp + w,
        len |-> len,
        next |-> lp + w + len]

\* The value of the tag read.
tlv_value(b, tg) == SubSeq(b, tg.start, tg.start + tg.len - 1)

RECURSIVE UintOf(_)
UintOf(b) == IF b = <<>> THEN 0 ELSE UintOf(SubSeq(b, 1, Len(b) - 1)) * 256 + b[Len(b)]

\* ---- the card
\* A card that holds data objects: files by the tag of the object, the data
\* of the commands of an open chain (acc), the part of a reply it still has
\* to send (pending), and the most bytes it sends in one reply (seg).
CardReply(c, data, sw) == [c |-> c, data |-> data, sw |-> sw]

CardSend(c, bytes) ==
    IF Len(bytes) > c.seg
    THEN LET rest == SubSeq(bytes, c.seg + 1, Len(bytes))
         IN CardReply([c EXCEPT !.pending = rest], SubSeq(bytes, 1, c.seg),
                      SW_BYTES_REMAINING_00 +
                          (IF Len(rest) > 255 THEN 0 ELSE Len(rest)))
    ELSE CardReply([c EXCEPT !.pending = <<>>], bytes, SW_NO_ERROR)

\* ---- a card that answers by a script
\* A card whose answers are given one by one: the script still to be played,
\* the command APDUs received (log) and the answers given (replies).  The
\* data of an answer differ from one answer to the next.  When the script
\* has run out the card answers 9000 without data.
CardScript(c, a) ==
    LET logged == [c EXCEPT !.log = Append(@, [cls |-> a.cls, ins |-> a.ins,
                                               p1 |-> a.p1, p2 |-> a.p2,
                                               data |-> a.data])]
    IN IF c.script = <<>>
       THEN CardReply([logged EXCEPT !.replies =
                           Append(@, [data |-> <<>>, sw |-> SW_NO_ERROR])],
                      <<>>, SW_NO_ERROR)
       ELSE LET e == Head(c.script)
                data == IF "data" \in DOMAIN e THEN e.data
                        ELSE [j \in 1..e.len |-> 16 * Len(c.script) + j]
            IN CardReply([logged EXCEPT !.script = Tail(@),
                              !.replies = Append(@, [data |-> data,
                                                     sw |-> e.sw])],
                         data, e.sw)

\* The card's answer to one command APDU.  A command with the chain bit is
\* kept and answered 9000; the command without it is carried out on the
\* data of the whole chain.
CardApdu(c, a) ==
    IF "script" \in DOMAIN c THEN CardScript(c, a)
    ELSE IF a.ins = INS_CONTINUE THEN CardSend(c, c.pending)
    ELSE
    Force(c.acc \o a.data, LAMBDA full :
    LET c0 == [c EXCEPT !.acc = <<>>, !.pending = <<>>]
        t5c == tlv_read_tag(full, 1)
        tag == UintOf(tlv_value(full, t5c))
        t53 == tlv_read_tag(full, t5c.next)
    IN
    IF (a.cls \div CLA_CHAIN) % 2 = 1
    THEN CardReply([c EXCEPT !.acc = full, !.pending = <<>>], <<>>,
                   SW_NO_ERROR)
    ELSE IF ~t5c.ok \/ t5c.tag # 92 \/ tag \notin DOMAIN c.files
    THEN CardReply(c0, <<>>, SW_FILE_NOT_FOUND)
    ELSE IF a.ins = INS_PUT_DATA
    THEN IF ~t53.ok \/ t53.tag # 83 \/ t53.next # Len(full) + 1
         THEN CardReply(c0, <<>>, SW_WRONG_DATA)
         ELSE CardReply([c0 EXCEPT !.files[tag] = tlv_value(full, t53)],
                        <<>>, SW_NO_ERROR)
    ELSE IF a.ins = INS_GET_DATA
    THEN IF c.files[tag] = NullPtr
         THEN CardReply(c0, <<>>, SW_FILE_NOT_FOUND)
         ELSE CardSend(c0, tlv_push(83, c.files[tag]))
    ELSE CardReply(c0, <<>>, SW_FUNC_NOT_SUPPORTED))

\* ---- the APDU layer
\* struct apdu after piv_apdu_make with the command data set by the caller.
piv_apdu_make(cls, ins, p1, p2, data) ==
    [a_cls |-> cls, a_ins |-> ins, a_p1 |-> p1, a_p2 |-> p2,
     a_cmd |-> [b_data |-> data, b_offset |-> 0, b_len |-> Len(data)],
     a_reply |-> [b_data |-> NullPtr, b_offset |-> 0, b_len |-> 0,
                  b_size |-> 0],
     a_sw |-> 0]

ApduRet(c, apdu, rv) == [c |-> c, apdu |-> apdu, rv |-> rv]

\* apdu_to_buffer: the bytes of a short command APDU, as the card sees
\* them.  ok is FALSE where the function asserts.
apdu_to_buffer(apdu) ==
    LET d == apdu.a_cmd IN
    IF d.b_data = NullPtr
    THEN [ok |-> TRUE, cls |-> apdu.a_cls, ins |-> apdu.a_ins,
          p1 |-> apdu.a_p1, p2 |-> apdu.a_p2, data |-> <<>>]
    ELSE [ok |-> d.b_len < 256 /\ d.b_len > 0,
          cls |-> apdu.a_cls, ins |-> apdu.a_ins,
          p1 |-> apdu.a_p1, p2 |-> apdu.a_p2,
          data |-> SubSeq(d.b_data, d.b_offset + 1, d.b_offset + d.b_len)]

\* piv_apdu_transceive with the card c at the other end of a reader that
\* passes every APDU on.  The reply buffer holds the bytes received so far;
\* SCardTransmit fails when the reply and its status word do not fit in
\* what is left of it.
piv_apdu_transceive_card(c, apdu) ==
    LET freedata == apdu.a_reply.b_data = NullPtr
        r == IF freedata
             THEN [b_data |-> <<>>, b_offset |-> 0, b_len |-> 0,
                   b_size |-> MAX_APDU_SIZE]
             ELSE apdu.a_reply
        recvLength == r.b_size - r.b_offset
    IN
    Force(apdu_to_buffer(apdu), LAMBDA cmd :
    IF ~cmd.ok THEN ApduRet(c, apdu, "ABORT")
    ELSE
    Force(CardApdu(c, cmd), LAMBDA ans :
    IF Len(ans.data) + 2 > recvLength
    THEN ApduRet(ans.c,
                 [apdu EXCEPT !.a_reply =
                     IF freedata
                     THEN [b_data |-> NullPtr, b_offset |-> 0, b_len |-> 0,
                           b_size |-> 0]
                     ELSE r],
                 "SCARD_E_INSUFFICIENT_BUFFER")
    ELSE ApduRet(ans.c,
                 [apdu EXCEPT !.a_reply =
                     [r EXCEPT !.b_data =
                                  SubSeq(r.b_data, 1, r.b_offset) \o ans.data,
                               !.b_len = Len(ans.data)],
                  !.a_sw = ans.sw],
                 "0")))

\* Every status word lets the chain go on.
ChainContinues_any(sw) == TRUE

\* The status words after which the chaining layer sends the next command.
ChainContinues(sw) ==
    Hi(sw) \in {SW_NO_ERROR, SW_BYTES_REMAINING_00, SW_WARNING_NO_CHANGE_00,
                SW_WARNING_00}

\* a_cls |= CLA_CHAIN and a_cls &= ~CLA_CHAIN
HasChain(cls) == (cls \div CLA_CHAIN) % 2 = 1
OrChain(cls) == IF HasChain(cls) THEN cls ELSE cls + CLA_CHAIN
AndNotChain(cls) == IF HasChain(cls) THEN cls - CLA_CHAIN ELSE cls

\* piv_apdu_transceive_chain, first loop, sending every chunk from the start
\* of the data again.
RECURSIVE send_command_same_offset(_, _, _)
send_command_same_offset(c, apdu, rem) ==
    IF rem = 0 THEN ApduRet(c, apdu, "next")
    ELSE
    Force(IF rem > 255
              THEN [apdu EXCEPT !.a_cls = OrChain(@), !.a_cmd.b_len = 255]
              ELSE [apdu EXCEPT !.a_cls = AndNotChain(@), !.a_cmd.b_len = rem], LAMBDA a1 :
    Force(piv_apdu_transceive_card(c, a1), LAMBDA x :
       IF x.rv # "0" THEN x
       ELSE IF ChainContinues(x.apdu.a_sw)
       THEN send_command_same_offset(x.c, x.apdu, rem - x.apdu.a_cmd.b_len)
       ELSE x))

\* piv_apdu_transceive_chain, first loop: the command data in chunks of at
\* most 255 bytes, all but the last with the chain bit.  rv is "next" when
\* every chunk was sent and answered with a status that lets the chain go
\* on, "0" when a chunk was answered with another status, and the error of
\* piv_apdu_transceive otherwise.
RECURSIVE send_command(_, _, _)
send_command(c, apdu, rem) ==
    IF rem = 0 THEN ApduRet(c, apdu, "next")
    ELSE
    Force(IF rem > 255
              THEN [apdu EXCEPT !.a_cls = OrChain(@), !.a_cmd.b_len = 255]
              ELSE [apdu EXCEPT !.a_cls = AndNotChain(@), !.a_cmd.b_len = rem], LAMBDA a1 :
    Force(piv_apdu_transceive_card(c, a1), LAMBDA x :
       IF x.rv # "0" THEN x
       ELSE IF ChainContinues(x.apdu.a_sw)
       THEN Force([x.apdu EXCEPT !.a_cmd.b_offset = @ + x.apdu.a_cmd.b_len],
                  LAMBDA a2 : send_command(x.c, a2, rem - a2.a_cmd.b_len))
       ELSE x))

\* piv_apdu_transceive_chain, one turn of the second loop: GET RESPONSE,
\* the segment behind the one before.
get_response_step(c, apdu) ==
    Force([apdu EXCEPT !.a_cls = CLA_ISO, !.a_ins = INS_CONTINUE,
                       !.a_p1 = 0, !.a_p2 = 0,
                       !.a_cmd.b_data = NullPtr,
                       !.a_reply.b_offset = @ + apdu.a_reply.b_len],
          LAMBDA a1 :
       IF ~(a1.a_reply.b_offset < a1.a_reply.b_size)
       THEN ApduRet(c, a1, "ABORT")
       ELSE piv_apdu_transceive_card(c, a1))

\* The second loop as long as the card's script: it goes on while the
\* status is 61xx.
RECURSIVE get_response(_, _)
get_response(c, apdu) ==
    IF Hi(apdu.a_sw) # SW_BYTES_REMAINING_00 THEN ApduRet(c, apdu, "0")
    ELSE Force(get_response_step(c, apdu), LAMBDA x :
               IF x.rv # "0" THEN x ELSE get_response(x.c, x.apdu))

\* The reply left as the last GET RESPONSE left it.
ChainResult_last_segment(x, offset) == x

\* The end of piv_apdu_transceive_chain: the reply is the span of all the
\* segments received.
ChainResult(x, offset) ==
    IF x.rv # "0" THEN x
    ELSE ApduRet(x.c,
                 [x.apdu EXCEPT !.a_reply.b_len =
                                    @ + x.apdu.a_reply.b_offset - offset,
                                !.a_reply.b_offset = offset],
                 "0")

piv_apdu_transceive_chain_same_offset(c, apdu) ==
    Force(send_command_same_offset(c, apdu, apdu.a_cmd.b_len), LAMBDA s :
       IF s.rv # "next" THEN s
       ELSE Force(get_response(s.c, s.apdu), LAMBDA g :
                ChainResult(g, s.apdu.a_reply.b_offset)))

\* piv_apdu_transceive_chain with the card c at the other end.
piv_apdu_transceive_chain_card(c, apdu) ==
    Force(send_command(c, apdu, apdu.a_cmd.b_len), LAMBDA s :
       IF s.rv # "next" THEN s
       ELSE Force(get_response(s.c, s.apdu), LAMBDA g :
                ChainResult(g, s.apdu.a_reply.b_offset)))

\* The bytes (b_data + b_offset, b_len) of a reply.
ReplySpan(r) == SubSeq(r.b_data, r.b_offset + 1, r.b_offset + r.b_len)

\* ---- data objects
FileRet(c, rv) == [c |-> c, rv |-> rv]

piv_write_file(c, tag, data) ==
    Force(piv_apdu_make(CLA_ISO, INS_PUT_DATA, 63, 255,
              tlv_push(92, UintBytes(tag)) \o
              tlv_pushl(83, Len(data) + 8, data)), LAMBDA apdu :
    Force(piv_apdu_transceive_chain_card(c, apdu), LAMBDA x :
       IF x.rv = "ABORT" THEN FileRet(x.c, "ABORT")
       ELSE IF x.rv # "0" THEN FileRet(x.c, "EIO")
       ELSE IF x.apdu.a_sw = SW_NO_ERROR THEN FileRet(x.c, "0")
       ELSE IF x.apdu.a_sw = SW_OUT_OF_MEMORY THEN FileRet(x.c, "ENOMEM")
       ELSE IF x.apdu.a_sw = SW_SECURITY_STATUS_NOT_SATISFIED
       THEN FileRet(x.c, "EPERM")
       ELSE IF x.apdu.a_sw = SW_FUNC_NOT_SUPPORTED THEN FileRet(x.c, "ENOENT")
       ELSE FileRet(x.c, "EINVAL")))

piv_write_cert(c, slotid, data, flags) ==
    IF slotid \notin PivSlots THEN FileRet(c, "ABORT")
    ELSE Force(tlv_pushl(112, Len(data) + 3, data) \o tlv_push(113, <<flags>>),
               LAMBDA obj : piv_write_file(c, PIV_TAG_CERT(slotid), obj))

\* The tags inside the 0x53 of a certificate object, from byte pos on: the
\* byte of tag 0x71 and the value of the last tag 0x70.  ok is FALSE when
\* the reader meets bytes that are not a tag.
RECURSIVE read_cert_tags(_, _, _, _)
read_cert_tags(b, pos, end, acc) ==
    IF pos >= end THEN acc
    ELSE Force(tlv_read_tag(b, pos), LAMBDA tg :
            IF ~tg.ok \/ tg.next > end THEN [acc EXCEPT !.ok = FALSE]
            ELSE IF tg.tag = 113
            THEN IF tg.len # 1 THEN [acc EXCEPT !.ok = FALSE]
                 ELSE Force([acc EXCEPT !.certinfo = b[tg.start]], LAMBDA a :
                          read_cert_tags(b, tg.next, end, a))
            ELSE IF tg.tag = 112
            THEN Force([acc EXCEPT !.has70 = TRUE, !.ptr = tlv_value(b, tg)],
                       LAMBDA a : read_cert_tags(b, tg.next, end, a))
            ELSE read_cert_tags(b, tg.next, end, acc))

\* piv_read_cert up to the call of d2i_X509: GET DATA for the object of the
\* slot through the chaining layer, and the certificate bytes (ptr, len)
\* and the certinfo byte found in the reply.
piv_read_cert_object(c, slotid) ==
    LET none == [c |-> c, rv |-> "ABORT", ok |-> TRUE, has70 |-> FALSE,
                 ptr |-> NullPtr, certinfo |-> 0]
    IN
    IF slotid \notin PivSlots THEN none
    ELSE
    Force(piv_apdu_transceive_chain_card(c,
              piv_apdu_make(CLA_ISO, INS_GET_DATA, 63, 255,
                  tlv_push(92, UintBytes(PIV_TAG_CERT(slotid))))), LAMBDA x :
       IF x.rv = "ABORT" THEN [none EXCEPT !.c = x.c]
       ELSE IF x.rv # "0" THEN [none EXCEPT !.c = x.c, !.rv = "EIO"]
       ELSE IF x.apdu.a_sw = SW_FILE_NOT_FOUND
       THEN [none EXCEPT !.c = x.c, !.rv = "ENOENT"]
       ELSE IF x.apdu.a_sw # SW_NO_ERROR
       THEN [none EXCEPT !.c = x.c, !.rv = "EINVAL"]
       ELSE
       Force(ReplySpan(x.apdu.a_reply), LAMBDA b :
       Force(tlv_read_tag(b, 1), LAMBDA t53 :
       IF ~t53.ok THEN [none EXCEPT !.c = x.c]
       ELSE IF t53.tag # 83 THEN [none EXCEPT !.c = x.c, !.rv = "ENOTSUP"]
       ELSE
       Force(read_cert_tags(b, t53.start, t53.next,
                            [none EXCEPT !.c = x.c, !.rv = "0"]), LAMBDA got :
       IF ~got.ok \/ t53.next # Len(b) + 1 THEN [none EXCEPT !.c = x.c]
       ELSE IF got.certinfo % 8 >= 4 \/ got.certinfo % 4 # 0
       THEN [got EXCEPT !.rv = "ENOTSUP"]
       ELSE got))))

(***************************************************************************)
(* Writing and reading certificate objects through the chaining layer     *)
(***************************************************************************)
\* The payloads written: n bytes that differ from place to place.
PayloadSizes == {1, 254, 255, 256, 510, 511, 512, 1200}
Payload(n) == [i \in 1..n |-> (7 * i + n) % 256]
ChainSlots == {156}                         \* 0x9C
SegLens == {255, 256}

\* A card without data objects that sends at most seg bytes in a reply.
CardEmpty(seg) ==
    [files |-> [tg \in {PIV_TAG_CERT(s) : s \in PivSlots} |-> NullPtr],
     acc |-> <<>>, pending |-> <<>>, seg |-> seg]

\* What the caller wrote last to each slot, by piv_write_cert or as a file.
ZeroWritten == [written |-> [s \in PivSlots |-> NullPtr]]

Call_piv_write_cert(t) ==
    /\ ~aborted /\ Listed(t) /\ tok[t].pt_intxn
    /\ \E slotid \in ChainSlots, n \in PayloadSizes :
         \E res \in {piv_write_cert(card[t], slotid, Payload(n), 0)} :
            /\ card' = [card EXCEPT ![t] = res.c]
            /\ gh' = IF res.rv = "0"
                     THEN [gh EXCEPT !.written[slotid] = Payload(n)]
                     ELSE gh
            /\ out' = [op |-> "write", slot |-> slotid, len |-> n]
            /\ last' = Called("piv_write_cert", t, res.rv)
            /\ aborted' = (res.rv = "ABORT")
    /\ UNCHANGED <<tks, tok, rdr, obs, tx_outside, box, ser>>

\* piv_write_file with an object the caller has put together: the certinfo
\* byte first, then the certificate.
Call_piv_write_file(t) ==
    /\ ~aborted /\ Listed(t) /\ tok[t].pt_intxn
    /\ \E slotid \in ChainSlots, n \in PayloadSizes :
         \E res \in {piv_write_file(card[t], PIV_TAG_CERT(slotid),
                        tlv_push(113, <<0>>) \o tlv_push(112, Payload(n)))} :
            /\ card' = [card EXCEPT ![t] = res.c]
            /\ gh' = IF res.rv = "0"
                     THEN [gh EXCEPT !.written[slotid] = Payload(n)]
                     ELSE gh
            /\ out' = [op |-> "write", slot |-> slotid, len |-> n]
            /\ last' = Called("piv_write_file", t, res.rv)
            /\ aborted' = (res.rv = "ABORT")
    /\ UNCHANGED <<tks, tok, rdr, obs, tx_outside, box, ser>>

\* The GET DATA of piv_read_cert; recorded are the certificate bytes the
\* function hands to d2i_X509.
Call_piv_read_cert_object(t) ==
    /\ ~aborted /\ Listed(t) /\ tok[t].pt_intxn
    /\ \E slotid \in ChainSlots :
         \E res \in {piv_read_cert_object(card[t], slotid)} :
            /\ card' = [card EXCEPT ![t] = res.c]
            /\ out' = [op |-> "read", slot |-> slotid, has70 |-> res.has70,
                       ptr |-> res.ptr, certinfo |-> res.certinfo]
            /\ last' = Called("piv_read_cert", t, res.rv)
            /\ aborted' = (res.rv = "ABORT")
    /\ UNCHANGED <<tks, tok, rdr, obs, tx_outside, box, gh, ser>>

(***************************************************************************)
(* The chaining layer against a card that answers by a script              *)
(***************************************************************************)
\* The answers of a script: the number of data bytes and the status word.
\* 9000, 61xx, 0x62xx and 0x63xx let a chain go on, 6A84 does not.
ScriptReplies ==
    {[len |-> 0, sw |-> SW_NO_ERROR], [len |-> 2, sw |-> SW_NO_ERROR],
     [len |-> 2, sw |-> SW_BYTES_REMAINING_00 + 3],
     [len |-> 0, sw |-> SW_BYTES_REMAINING_00],
     [len |-> 1, sw |-> SW_WARNING_NO_CHANGE_00],
     [len |-> 0, sw |-> SW_WARNING_00 + 1],
     [len |-> 0, sw |-> SW_OUT_OF_MEMORY]}
ScriptLens == 0..3
Scripts == UNION {[1..n -> ScriptReplies] : n \in ScriptLens}
\* The lengths of the command data: one slice, two and three.
ApduSizes == {1, 255, 256, 510, 511}

CardScripted(script) == [script |-> script, log |-> <<>>, replies |-> <<>>]

\* piv_apdu_transceive_chain with a command of n data bytes.  Recorded are
\* the data, the APDUs the card received and the answers it gave, and the
\* status word and the reply of the struct apdu after the call.
Call_piv_apdu_transceive_chain(t) ==
    /\ ~aborted /\ Listed(t) /\ tok[t].pt_intxn
    /\ \E n \in ApduSizes :
       \E res \in {piv_apdu_transceive_chain_card(card[t],
                       piv_apdu_make(CLA_ISO, INS_PUT_DATA, 63, 255,
                                     Payload(n)))} :
            /\ card' = [card EXCEPT ![t] = CardScripted(res.c.script)]
            /\ out' = [op |-> "chain", data |-> Payload(n),
                       log |-> res.c.log, replies |-> res.c.replies,
                       a_sw |-> res.apdu.a_sw,
                       b_offset |-> res.apdu.a_reply.b_offset,
                       b_len |-> res.apdu.a_reply.b_len,
                       span |-> IF res.apdu.a_reply.b_data = NullPtr
                                THEN NullPtr
                                ELSE ReplySpan(res.apdu.a_reply)]
            /\ last' = Called("piv_apdu_transceive_chain", t, res.rv)
            /\ aborted' = (res.rv = "ABORT")
    /\ UNCHANGED <<tks, tok, rdr, obs, tx_outside, box, gh, ser>>

(***************************************************************************)
(* piv_apdu_transceive_chain, one GET RESPONSE at a time                   *)
(***************************************************************************)
\* What a card may answer to one APDU of a chain: the end with or without
\* data, more to come (6100 or 6101 without data, 61FF with data), and a
\* refusal.
LoopReplies ==
    {[len |-> 0, sw |-> SW_NO_ERROR, data |-> <<>>],
     [len |-> 2, sw |-> SW_NO_ERROR, data |-> <<7, 8>>],
     [len |-> 0, sw |-> SW_BYTES_REMAINING_00, data |-> <<>>],
     [len |-> 0, sw |-> SW_BYTES_REMAINING_00 + 1, data |-> <<>>],
     [len |-> 256, sw |-> SW_BYTES_REMAINING_00 + 255,
      data |-> [j \in 1..256 |-> 9]],
     [len |-> 0, sw |-> SW_OUT_OF_MEMORY, data |-> <<>>]}
\* The lengths of the command data: one slice and two.
LoopSizes == {1, 256}
\* The call of piv_apdu_transceive_chain that is under way: pc is "idle"
\* before the first call, "get" between the first loop and the return, and
\* "done" after the return.
ChainAt(pc, apdu, offset) == [op |-> "chain", pc |-> pc, apdu |-> apdu,
                              offset |-> offset]

\* The call up to the second loop: the assertion, the first loop and the
\* offset of the reply kept in offset.
Chain_begin(t) ==
    /\ ~aborted /\ Listed(t) /\ tok[t].pt_intxn
    /\ out.pc \in {"idle", "done"}
    /\ \E n \in LoopSizes :
       \E sc \in [1..((n + 254) \div 255) -> LoopReplies] :
       \E s \in {send_command(CardScripted(sc),
                     piv_apdu_make(CLA_ISO, INS_PUT_DATA, 63, 255,
                                   Payload(n)), n)} :
            /\ out' = ChainAt(IF s.rv = "next" THEN "get" ELSE "done",
                              s.apdu, s.apdu.a_reply.b_offset)
            /\ last' = Called("piv_apdu_transceive_chain", t,
                              IF s.rv = "next" THEN "running" ELSE s.rv)
            /\ aborted' = (s.rv = "ABORT")
    /\ UNCHANGED <<tks, tok, rdr, card, obs, tx_outside, box, gh, ser>>

\* One turn of the second loop, with the answer e of the card.
Chain_get_response(t) ==
    /\ ~aborted /\ last.tk = t /\ out.pc = "get"
    /\ Hi(out.apdu.a_sw) = SW_BYTES_REMAINING_00
    /\ \E e \in LoopReplies :
       \E x \in {get_response_step(CardScripted(<<e>>), out.apdu)} :
            /\ out' = ChainAt(IF x.rv = "0" THEN "get" ELSE "done",
                              x.apdu, out.offset)
            /\ last' = [last EXCEPT !.rv = IF x.rv = "0" THEN "running"
                                           ELSE x.rv]
            /\ aborted' = (x.rv = "ABORT")
    /\ UNCHANGED <<tks, tok, rdr, card, obs, tx_outside, box, gh, ser>>

\* The end of the second loop and the return.
Chain_end(t) ==
    /\ ~aborted /\ last.tk = t /\ out.pc = "get"
    /\ Hi(out.apdu.a_sw) # SW_BYTES_REMAINING_00
    /\ \E g \in {ChainResult(ApduRet(card[t], out.apdu, "0"), out.offset)} :
            /\ out' = ChainAt("done", g.apdu, out.offset)
            /\ last' = [last EXCEPT !.rv = "0"]
    /\ UNCHANGED <<tks, tok, rdr, card, obs, tx_outside, aborted, box, gh,
                   ser>>

(***************************************************************************)
(* The list of slots of a token                                            *)
(***************************************************************************)
\* The keys of the certificates a card gives.
CertKeys == {SshKey(256, 1, 0), SshKey(384, 2, 0)}
\* The answers of a card to the GET DATA of piv_read_cert: a certificate
\* (at once or after 61xx), no object, a failing transmit, a refusal, an
\* object under another tag, one without a certificate in it, and a
\* certificate with a key of a size piv_read_cert does not know.
SlotReplies ==
    {<<Data([tag |-> 83, ci |-> "plain", has70 |-> TRUE, key |-> k])>> :
        k \in CertKeys}
    \cup {<<Answer(SW_BYTES_REMAINING_00 + 16),
            Data([tag |-> 83, ci |-> "plain", has70 |-> TRUE,
                  key |-> SshKey(256, 1, 0)])>>,
          <<Answer(SW_FILE_NOT_FOUND)>>, <<NoReply>>,
          <<Answer(SW_WRONG_DATA)>>,
          <<Data([tag |-> 48, ci |-> "plain", has70 |-> TRUE,
                  key |-> SshKey(256, 1, 0)])>>,
          <<Data([tag |-> 83, ci |-> "gzip", has70 |-> TRUE,
                  key |-> SshKey(256, 1, 0)])>>,
          <<Data([tag |-> 83, ci |-> "plain", has70 |-> FALSE,
                  key |-> NullKey])>>,
          <<Data([tag |-> 83, ci |-> "plain", has70 |-> TRUE,
                  key |-> SshKey(521, 9, 0)])>>}
\* No certificate read from any slot of any token.
ZeroRecent == [r \in Readers |-> [s \in PivSlots |-> NullKey]]

\* piv_read_cert of any of the four slots.  Recorded are the key of the
\* certificate that the last read of each slot that returned 0 was given,
\* and of this call the slot, the key the card gave and the record of the
\* slot before the call.
Call_piv_read_cert_slot(t) ==
    /\ ~aborted /\ Listed(t)
    /\ \E slotid \in PivSlots, rs \in SlotReplies :
       \E ub \in UbOutcomes(rs[1].io = SCARD_S_SUCCESS
                            /\ rs[1].sw = SW_NO_ERROR
                            /\ ~rs[1].body.has70) :
       \E res \in {piv_read_cert(World, t, slotid, rs, ub)} :
         /\ Commit(res.w)
         /\ gh' = IF res.rv = "0"
                  THEN [gh EXCEPT ![t][slotid] = rs[Len(rs)].body.key]
                  ELSE gh
         /\ out' = [op |-> "read_cert", slotid |-> slotid,
                    before |-> piv_get_slot(tok[t], slotid)]
         /\ last' = Called("piv_read_cert", t, res.rv)
         /\ UNCHANGED <<card, box, ser>>

(***************************************************************************)
(* piv_read_all_certs                                                      *)
(***************************************************************************)
\* The slots in the order piv_read_all_certs reads them: 9E, 9A, 9C, 9D.
ReadAllOrder == <<158, 154, 156, 157>>

\* piv_read_all_certs from the i-th read on; rss[i] are the replies of the
\* card to the i-th read, and got the slots read so far with what
\* piv_read_cert returned for each.
RECURSIVE read_all_from(_, _, _, _, _)
read_all_from(w, t, rss, i, got) ==
    Force(piv_read_cert(w, t, ReadAllOrder[i], rss[i], "quiet"), LAMBDA c :
    Force(Append(got, [slot |-> ReadAllOrder[i], rv |-> c.rv]), LAMBDA g :
       IF c.rv = "ABORT" THEN Abort(c.w) @@ [got |-> g]
       ELSE IF c.rv \notin {"0", "ENOENT", "ENOTSUP"}
       THEN Ret(c.w, c.rv) @@ [got |-> g]
       ELSE IF i = Len(ReadAllOrder) THEN Ret(c.w, c.rv) @@ [got |-> g]
       ELSE read_all_from(c.w, t, rss, i + 1, g)))

piv_read_all_certs(w, t, rss) ==
    IF ~w.tok[t].pt_intxn THEN Abort(w) @@ [got |-> <<>>]
    ELSE read_all_from(w, t, rss, 1, <<>>)

\* The answers of a card to one GET DATA of piv_read_all_certs: a
\* certificate, no object (ENOENT), an object under another tag (ENOTSUP)
\* and a failing transmit (EIO).
ReadAllReplies ==
    {<<Data([tag |-> 83, ci |-> "plain", has70 |-> TRUE,
             key |-> SshKey(256, 1, 0)])>>,
     <<Answer(SW_FILE_NOT_FOUND)>>,
     <<Data([tag |-> 48, ci |-> "plain", has70 |-> TRUE,
             key |-> SshKey(256, 1, 0)])>>,
     <<NoReply>>}

Call_piv_read_all_certs(t) ==
    /\ ~aborted /\ Listed(t)
    /\ \E rss \in [1..Len(ReadAllOrder) -> ReadAllReplies] :
       \E res \in {piv_read_all_certs(World, t, rss)} :
         /\ Commit(res.w)
         /\ out' = [op |-> "read_all", got |-> res.got]
         /\ last' = Called("piv_read_all_certs", t, res.rv)
         /\ UNCHANGED <<card, box, gh, ser>>

(***************************************************************************)
(* Envelopes from outside                                                  *)
(***************************************************************************)
\* The GUIDs and the slot bytes of the envelopes piv_box_find_token is
\* given: the GUID of zeros, the GUID of the card in reader 1 and one of no
\* card; the slot bytes 0, 9D, and 0x42, which is no slot.
EnvGuids == {GuidZero, Guid(1), Guid(9)}
EnvSlots == {0, 157, 66}
\* An envelope as piv_box_to_binary writes it, for the key with point q in
\* the slot and with the GUID and the slot byte of the sender's choice.
Envelope(guid, slot, q) ==
    piv_box_to_binary(
        [piv_box_seal_offline(
             [piv_box_new EXCEPT !.pdb_plain = Buf(<<7>>, 1)],
             SshKey(256, q, 0), 7, 1, "quiet").box
            EXCEPT !.pdb_guid = guid, !.pdb_slot = slot]).output

\* piv_box_from_binary of an envelope from outside.
Call_piv_box_from_binary_env ==
    /\ ~aborted
    /\ \E guid \in EnvGuids, slot \in EnvSlots, q \in {2, 3} :
       \E res \in {piv_box_from_binary(Envelope(guid, slot, q))} :
         /\ BoxCommit(IF res.rv = "0" THEN res.box ELSE box, res.rv)
         /\ last' = Called("piv_box_from_binary", 0, res.rv)
         /\ gh' = [ZeroGh EXCEPT !.sealed = (res.rv = "0"),
                                 !.pubk = SshKey(256, q, 0)]
         /\ out' = [op |-> "from_binary", input |-> "whole",
                    pbox |-> res.box]
    /\ UNCHANGED ser

(***************************************************************************)
(* VERIFY and CHANGE REFERENCE DATA as the card receives them              *)
(***************************************************************************)
INS_VERIFY == 32
INS_CHANGE_PIN == 36

\* piv_change_pin with the new PIN put right behind the old one.
change_pin_pinbuf_packed(pin, newpin) ==
    [i \in 1..16 |->
       IF i <= Len(pin) THEN pin[i]
       ELSE IF i - Len(pin) <= Len(newpin) THEN newpin[i - Len(pin)]
       ELSE 255]

\* piv_change_pin: pinbuf[16] after the memset and the two loops: the old
\* PIN from byte 0, then the new one from byte 8, each as long as it is.
change_pin_pinbuf(pin, newpin) ==
    [i \in 1..16 |->
       IF i > 8 /\ i - 8 <= Len(newpin) THEN newpin[i - 8]
       ELSE IF i <= Len(pin) THEN pin[i]
       ELSE 255]

PinRet(c, rv, reset) == [c |-> c, rv |-> rv, reset |-> reset]

\* piv_verify_pin with retries = NULL and the card c at the other end.
\* reset tells whether pt_reset was set.
piv_verify_pin_bytes(c, pin) ==
    Force([piv_apdu_make(CLA_ISO, INS_VERIFY, 0, 128, verify_pin_pinbuf(pin))
              EXCEPT !.a_cmd.b_len = 8], LAMBDA apdu :
    Force(piv_apdu_transceive_card(c, apdu), LAMBDA x :
       IF x.rv = "ABORT" THEN PinRet(x.c, "ABORT", FALSE)
       ELSE IF x.rv # "0" THEN PinRet(x.c, "EIO", FALSE)
       ELSE IF x.apdu.a_sw = SW_NO_ERROR THEN PinRet(x.c, "0", TRUE)
       ELSE IF Hi12(x.apdu.a_sw) = SW_INCORRECT_PIN
       THEN PinRet(x.c, "EACCES", FALSE)
       ELSE PinRet(x.c, "EINVAL", FALSE)))

\* piv_change_pin with the card c at the other end.
piv_change_pin_bytes(c, pin, newpin) ==
    Force([piv_apdu_make(CLA_ISO, INS_CHANGE_PIN, 0, 128,
                         change_pin_pinbuf(pin, newpin))
              EXCEPT !.a_cmd.b_len = 16], LAMBDA apdu :
    Force(piv_apdu_transceive_card(c, apdu), LAMBDA x :
       IF x.rv = "ABORT" THEN PinRet(x.c, "ABORT", FALSE)
       ELSE IF x.rv # "0" THEN PinRet(x.c, "EIO", FALSE)
       ELSE IF x.apdu.a_sw = SW_NO_ERROR THEN PinRet(x.c, "0", TRUE)
       ELSE IF Hi12(x.apdu.a_sw) = SW_INCORRECT_PIN
       THEN PinRet(x.c, "EACCES", FALSE)
       ELSE PinRet(x.c, "EINVAL", FALSE)))

\* The PINs of the callers: one of every length from 1 to 8, and one more
\* of 8 characters.
Pins == {[i \in 1..n |-> 48 + i] : n \in 1..8} \cup {[i \in 1..8 |-> 57]}
\* What the card answers: 9000 to everything, or first that the PIN is
\* wrong with two tries left, or first that the data are wrong.
PinScripts ==
    {<<>>, <<[len |-> 0, sw |-> SW_INCORRECT_PIN + 2]>>,
     <<[len |-> 0, sw |-> SW_WRONG_DATA]>>}

Call_piv_verify_pin_bytes(t) ==
    /\ ~aborted /\ Listed(t) /\ tok[t].pt_intxn
    /\ \E pin \in Pins :
       \E res \in {piv_verify_pin_bytes(card[t], pin)} :
            /\ card' = [card EXCEPT ![t] = CardScripted(res.c.script)]
            /\ tok' = [tok EXCEPT ![t].pt_reset = IF res.reset THEN TRUE
                                                  ELSE @]
            /\ out' = [op |-> "verify", pin |-> pin, newpin |-> <<>>,
                       log |-> res.c.log]
            /\ last' = Called("piv_verify_pin", t, res.rv)
            /\ aborted' = (res.rv = "ABORT")
    /\ UNCHANGED <<tks, rdr, obs, tx_outside, box, gh, ser>>

Call_piv_change_pin_bytes(t) ==
    /\ ~aborted /\ Listed(t) /\ tok[t].pt_intxn
    /\ \E pin \in Pins, newpin \in Pins :
       \E res \in {piv_change_pin_bytes(card[t], pin, newpin)} :
            /\ card' = [card EXCEPT ![t] = CardScripted(res.c.script)]
            /\ tok' = [tok EXCEPT ![t].pt_reset = IF res.reset THEN TRUE
                                                  ELSE @]
            /\ out' = [op |-> "change", pin |-> pin, newpin |-> newpin,
                       log |-> res.c.log]
            /\ last' = Called("piv_change_pin", t, res.rv)
            /\ aborted' = (res.rv = "ABORT")
    /\ UNCHANGED <<tks, rdr, obs, tx_outside, box, gh, ser>>

(***************************************************************************)
(* SELECT and the list of algorithms                                       *)
(***************************************************************************)
INS_SELECT == 164
SEL_APP_AID == 4
PIV_TAG_APT == 97
PIV_TAG_ALGS == 172
AID_PIV == <<160, 0, 0, 3, 8, 0, 0, 16, 0, 1, 0>>
\* The tags inside the template that piv_select skips: the AID, the
\* authority, the label and the URI.
AptSkipped == {79, 121, 80, 24400}
\* The number of elements of pt_algs in struct piv_token.
PT_ALGS_MAX == 32

\* The list of algorithms of a token together with the position of the
\* reader in the answer, and without it.
AlgsAt(st, pos) ==
    [pt_algs |-> st.pt_algs, pt_alg_count |-> st.pt_alg_count,
     outside |-> st.outside, rv |-> st.rv, pos |-> pos]
AlgsOf(s) ==
    [pt_algs |-> s.pt_algs, pt_alg_count |-> s.pt_alg_count,
     outside |-> s.outside, rv |-> s.rv]

\* idx = tk->pt_alg_count++; tk->pt_algs[idx] = alg.  s holds pt_algs (the
\* elements written), pt_alg_count, and outside, the number of writes
\* behind the end of the array, which either stop the process (ub =
\* "crash") or land in the memory that follows.
select_store(s, alg, ub) ==
    IF s.pt_alg_count < PT_ALGS_MAX
    THEN [s EXCEPT !.pt_algs = Append(@, alg), !.pt_alg_count = @ + 1]
    ELSE IF ub = "crash" THEN [s EXCEPT !.rv = "ABORT"]
    ELSE [s EXCEPT !.pt_alg_count = @ + 1, !.outside = @ + 1]

\* piv_select, one turn of the loop over the tags inside 0xAC; a loop that
\* has ended stays as it is.
select_alg_step(b, end, s, ub) ==
    IF s.pos >= end \/ s.rv # "0" THEN s
    ELSE Force(tlv_read_tag(b, s.pos), LAMBDA tg :
           IF ~tg.ok \/ tg.next > end THEN [s EXCEPT !.rv = "ABORT"]
           ELSE IF tg.tag = 128
           THEN [select_store(s, UintOf(tlv_value(b, tg)), ub)
                    EXCEPT !.pos = tg.next]
           ELSE IF tg.tag = 6 THEN [s EXCEPT !.pos = tg.next]
           ELSE [s EXCEPT !.rv = "ABORT"])

\* n turns of that loop, one half after the other.
RECURSIVE select_alg_steps(_, _, _, _, _)
select_alg_steps(b, end, s, ub, n) ==
    IF n = 0 THEN s
    ELSE IF n = 1 THEN select_alg_step(b, end, s, ub)
    ELSE Force(select_alg_steps(b, end, s, ub, n \div 2), LAMBDA m :
               select_alg_steps(b, end, m, ub, n - n \div 2))

\* piv_select, the loop over the tags inside 0xAC, which takes at most one
\* turn for every two bytes.
select_algs(b, pos, end, st, ub) ==
    AlgsOf(select_alg_steps(b, end, AlgsAt(st, pos), ub, end - pos))

\* piv_select, the loop over the tags inside the template.
RECURSIVE select_tags(_, _, _, _, _)
select_tags(b, pos, end, st, ub) ==
    IF pos >= end \/ st.rv # "0" THEN st
    ELSE Force(tlv_read_tag(b, pos), LAMBDA tg :
           IF ~tg.ok \/ tg.next > end THEN [st EXCEPT !.rv = "ABORT"]
           ELSE IF tg.tag \in AptSkipped
           THEN select_tags(b, tg.next, end, st, ub)
           ELSE IF tg.tag = PIV_TAG_ALGS
           THEN IF st.pt_alg_count > 0
                THEN select_tags(b, tg.next, end, st, ub)
                ELSE Force(select_algs(b, tg.start, tg.next, st, ub),
                           LAMBDA s1 : select_tags(b, tg.next, end, s1, ub))
           ELSE [st EXCEPT !.rv = "ENOTSUP"])

\* piv_select with the card c at the other end; st holds the list of
\* algorithms of the token.  The result holds the card, the list and rv.
piv_select_bytes(c, st, ub) ==
    Force([piv_apdu_make(CLA_ISO, INS_SELECT, SEL_APP_AID, 0, AID_PIV)
              EXCEPT !.a_cmd.b_len = Len(AID_PIV)], LAMBDA apdu :
    Force(piv_apdu_transceive_card(c, apdu), LAMBDA x :
       IF x.rv = "ABORT" THEN [c |-> x.c, st |-> [st EXCEPT !.rv = "ABORT"]]
       ELSE IF x.rv # "0" THEN [c |-> x.c, st |-> [st EXCEPT !.rv = "EIO"]]
       ELSE IF x.apdu.a_sw # SW_NO_ERROR
       THEN [c |-> x.c, st |-> [st EXCEPT !.rv = "ENOENT"]]
       ELSE
       Force(ReplySpan(x.apdu.a_reply), LAMBDA b :
       Force(tlv_read_tag(b, 1), LAMBDA apt :
       IF ~apt.ok THEN [c |-> x.c, st |-> [st EXCEPT !.rv = "ABORT"]]
       ELSE IF apt.tag # PIV_TAG_APT
       THEN [c |-> x.c, st |-> [st EXCEPT !.rv = "ENOTSUP"]]
       ELSE [c |-> x.c,
             st |-> select_tags(b, apt.start, apt.next,
                                [st EXCEPT !.rv = "0"], ub)]))))

RECURSIVE AlgEntries(_)
\* n algorithms as a card lists them: each under the tag 0x80.
AlgEntries(n) ==
    IF n = 0 THEN <<>>
    ELSE AlgEntries(n - 1) \o tlv_push(128, <<(16 + n) % 256>>)
\* The template of a card that lists n algorithms.
AptReply(n) ==
    tlv_push(PIV_TAG_APT,
        tlv_push(79, <<0, 0, 16, 0, 1, 0>>) \o
        tlv_push(PIV_TAG_ALGS, AlgEntries(n) \o tlv_push(6, <<0>>)))
\* The numbers of algorithms cards list: none, three, as many as pt_algs
\* holds, and more.
AlgCounts == {0, 3, PT_ALGS_MAX, PT_ALGS_MAX + 1, PT_ALGS_MAX + 8}
SelectAnswers ==
    {[len |-> 0, sw |-> SW_FILE_NOT_FOUND, data |-> <<>>]}
    \cup {[len |-> Len(AptReply(n)), sw |-> SW_NO_ERROR,
           data |-> AptReply(n)] : n \in AlgCounts}
SelectScripts == UNION {[1..n -> SelectAnswers] : n \in 1..2}

\* The list of algorithms of a token as calloc leaves it.
ZeroAlgs == [pt_algs |-> <<>>, pt_alg_count |-> 0, outside |-> 0, rv |-> "0"]

\* piv_select of a listed token; gh holds the algorithm list of the token.
Call_piv_select_bytes(t) ==
    /\ ~aborted /\ Listed(t) /\ tok[t].pt_intxn
    /\ card[t].script # <<>>
    /\ \E ub \in UbOutcomes(TRUE) :
       \E res \in {piv_select_bytes(card[t], gh, ub)} :
            /\ card' = [card EXCEPT ![t] = CardScripted(res.c.script)]
            /\ gh' = [res.st EXCEPT !.rv = "0"]
            /\ out' = [op |-> "select", reply |-> res.c.replies]
            /\ last' = Called("piv_select", t, res.st.rv)
            /\ aborted' = (res.st.rv = "ABORT")
    /\ UNCHANGED <<tks, tok, rdr, obs, tx_outside, box, ser>>

(***************************************************************************)
(* PINs of any length                                                      *)
(***************************************************************************)
\* for (i = from; i < n, pin[i - from] != 0; ++i) pinbuf[i] = pin[i - from]:
\* the bytes of pinbuf the loop writes, counted from 1.  The value of the
\* comma expression is that of pin[i - from] != 0, so the loop goes on to
\* the end of the string.
CopyIndexes(pin, from) == {from + i : i \in 1..Len(pin)}

\* piv_verify_pin for a PIN of any length.  A write behind the 8 bytes of
\* pinbuf stops the process (ub = "crash") or lands in the memory behind.
piv_verify_pin_any(c, pin, ub) ==
    IF ~(CopyIndexes(pin, 0) \subseteq 1..8) /\ ub = "crash"
    THEN PinRet(c, "ABORT", FALSE)
    ELSE piv_verify_pin_bytes(c, pin)

\* piv_change_pin for PINs of any length, the same with the 16 bytes of
\* its pinbuf.
piv_change_pin_any(c, pin, newpin, ub) ==
    IF ~(CopyIndexes(pin, 0) \cup CopyIndexes(newpin, 8) \subseteq 1..16)
        /\ ub = "crash"
    THEN PinRet(c, "ABORT", FALSE)
    ELSE piv_change_pin_bytes(c, pin, newpin)

\* The PINs of the callers: of 4, 8, 9, 12 and 17 characters.
LongPins == {[i \in 1..n |-> 48 + (i % 10)] : n \in {4, 8, 9, 12, 17}}

\* Recorded are the bytes of pinbuf the call wrote characters of the old
\* PIN and of the new PIN to.
Call_piv_verify_pin_any(t) ==
    /\ ~aborted /\ Listed(t) /\ tok[t].pt_intxn
    /\ \E pin \in LongPins :
       \E ub \in UbOutcomes(~(CopyIndexes(pin, 0) \subseteq 1..8)) :
       \E res \in {piv_verify_pin_any(card[t], pin, ub)} :
            /\ card' = [card EXCEPT ![t] = CardScripted(res.c.script)]
            /\ tok' = [tok EXCEPT ![t].pt_reset = IF res.reset THEN TRUE
                                                  ELSE @]
            /\ out' = [op |-> "verify", pin |-> pin, newpin |-> <<>>,
                       log |-> res.c.log,
                       wrote_pin |-> CopyIndexes(pin, 0), wrote_new |-> {}]
            /\ last' = Called("piv_verify_pin", t, res.rv)
            /\ aborted' = (res.rv = "ABORT")
    /\ UNCHANGED <<tks, rdr, obs, tx_outside, box, gh, ser>>

Call_piv_change_pin_any(t) ==
    /\ ~aborted /\ Listed(t) /\ tok[t].pt_intxn
    /\ \E pin \in LongPins, newpin \in LongPins :
       \E ub \in UbOutcomes(~(CopyIndexes(pin, 0) \cup CopyIndexes(newpin, 8)
                                 \subseteq 1..16)) :
       \E res \in {piv_change_pin_any(card[t], pin, newpin, ub)} :
            /\ card' = [card EXCEPT ![t] = CardScripted(res.c.script)]
            /\ tok' = [tok EXCEPT ![t].pt_reset = IF res.reset THEN TRUE
                                                  ELSE @]
            /\ out' = [op |-> "change", pin |-> pin, newpin |-> newpin,
                       log |-> res.c.log,
                       wrote_pin |-> CopyIndexes(pin, 0),
                       wrote_new |-> CopyIndexes(newpin, 8)]
            /\ last' = Called("piv_change_pin", t, res.rv)
            /\ aborted' = (res.rv = "ABORT")
    /\ UNCHANGED <<tks, rdr, obs, tx_outside, box, gh, ser>>

(***************************************************************************)
(* Signing                                                                 *)
(***************************************************************************)
SSH_DIGEST_SHA1 == 1
SSH_DIGEST_SHA256 == 2
SSH_DIGEST_SHA384 == 3
SSH_DIGEST_SHA512 == 4
NID_sha1 == 64
NID_sha256 == 672
GA_TAG_CHALLENGE == 129                     \* 0x81

\* struct sshkey of type KEY_RSA: the size of the modulus in bits and the
\* toy public and private exponents q and d (0 in a public key)
RsaKey(bits, q, d) == [type |-> "KEY_RSA", bits |-> bits, q |-> q, d |-> d]

\* The private and the public operation of a toy RSA key on a block of the
\* size of the modulus: each undoes the other when q = d.
RsaPrivate(d, block) == [i \in 1..Len(block) |-> (block[i] + d) % 256]
RsaPublic(q, sig) == [i \in 1..Len(sig) |-> (sig[i] + 256 - q) % 256]
\* A toy ECDSA signature over the bytes given as the hash.
EcSign(d, hash) == <<(d + SumSeq(hash)) % 256, Len(hash)>>

\* OBJ_nid2obj: the DER of the object identifier of a digest
OidBytes(nid) ==
    IF nid = NID_sha1 THEN <<6, 5, 43, 14, 3, 2, 26>>
    ELSE <<6, 9, 96, 134, 72, 1, 101, 3, 4, 2, 1>>

\* i2d_X509_SIG: SEQUENCE { SEQUENCE { algorithm, NULL }, OCTET STRING }
i2d_X509_SIG(nid, digest) ==
    LET algor == <<48, Len(OidBytes(nid)) + 2>> \o OidBytes(nid) \o <<5, 0>>
        octets == <<4, Len(digest)>> \o digest
    IN <<48, Len(algor) + Len(octets)>> \o algor \o octets

\* The digest algorithm piv_sign would use if it took the caller's word.
EffectiveHash_as_requested(alg, hashalgo) ==
    IF alg = "ECCP384" THEN SSH_DIGEST_SHA384 ELSE hashalgo

\* piv_sign, switch (slot->ps_alg): the value left in *hashalgo
EffectiveHash(alg, hashalgo) ==
    IF alg \in {"RSA1024", "RSA2048", "ECCP256"}
    THEN IF hashalgo = SSH_DIGEST_SHA1 THEN SSH_DIGEST_SHA1
         ELSE SSH_DIGEST_SHA256
    ELSE SSH_DIGEST_SHA384

\* piv_sign, switch (slot->ps_alg): inplen and dglen
SignInplen(alg) ==
    IF alg = "RSA1024" THEN 128 ELSE IF alg = "RSA2048" THEN 256
    ELSE IF alg = "ECCP256" THEN 32 ELSE 48
SignDglen(alg, hashalgo) ==
    IF alg = "ECCP384" THEN 48
    ELSE IF hashalgo = SSH_DIGEST_SHA1 THEN 20 ELSE 32

\* piv_sign, the loop over the algorithms the card has listed: st holds
\* cardhash, oldalg and slot->ps_alg.
RECURSIVE card_hash_from(_, _, _, _)
card_hash_from(algs, i, hashalgo, st) ==
    IF i > Len(algs) THEN st
    ELSE IF algs[i] = "ECCP256_SHA1" /\ hashalgo = SSH_DIGEST_SHA1
    THEN card_hash_from(algs, i + 1, hashalgo,
             [cardhash |-> TRUE, oldalg |-> st.ps_alg,
              ps_alg |-> "ECCP256_SHA1"])
    ELSE IF algs[i] = "ECCP256_SHA256" /\ hashalgo = SSH_DIGEST_SHA256
    THEN card_hash_from(algs, i + 1, hashalgo,
             [cardhash |-> TRUE, oldalg |-> st.ps_alg,
              ps_alg |-> "ECCP256_SHA256"])
    ELSE card_hash_from(algs, i + 1, hashalgo, st)

\* The padded block with 0xFF where the separator belongs.
Pkcs1Block_no_separator(inplen, der) ==
    [i \in 1..inplen |->
       IF i = 1 THEN 0
       ELSE IF i = 2 THEN 1
       ELSE IF i > inplen - Len(der) THEN der[i - (inplen - Len(der))]
       ELSE 255]

\* piv_sign, the block around the DigestInfo der: memset(buf, 0xFF, inplen),
\* buf[0] = 0x00, buf[1] = 0x01, buf[inplen - nread - 1] = 0x00 and the
\* DigestInfo at buf + (inplen - nread).
Pkcs1Block(inplen, der) ==
    [i \in 1..inplen |->
       IF i = 1 THEN 0
       ELSE IF i = 2 THEN 1
       ELSE IF i = inplen - Len(der) THEN 0
       ELSE IF i > inplen - Len(der) THEN der[i - (inplen - Len(der))]
       ELSE 255]

\* piv_sign up to the call of piv_sign_prehash, for a slot of algorithm alg
\* on a token whose card has listed algs: *hashalgo, whether the card
\* hashes, the algorithm saved and the one left in the slot for the
\* exchange, and the bytes (buf, inplen) to be signed.  ok is FALSE where
\* the switch asserts.
sign_input(algs, alg, data, hashalgo) ==
    LET eff == EffectiveHash(alg, hashalgo)
        inplen == SignInplen(alg)
        dglen == SignDglen(alg, eff)
        st == IF alg = "ECCP256"
              THEN card_hash_from(algs, 1, eff,
                       [cardhash |-> FALSE, oldalg |-> "NULL",
                        ps_alg |-> alg])
              ELSE [cardhash |-> FALSE, oldalg |-> "NULL", ps_alg |-> alg]
        digest == SubSeq(Digest(eff, data), 1, dglen)
        hashed == [i \in 1..inplen |->
                     IF i <= dglen THEN digest[i] ELSE 0]
        buf == IF st.cardhash THEN data
               ELSE IF st.ps_alg \in {"RSA1024", "RSA2048"}
               THEN Pkcs1Block(inplen, i2d_X509_SIG(NID_sha256, digest))
               ELSE hashed
    IN [ok |-> alg \in {"RSA1024", "RSA2048", "ECCP256", "ECCP384"},
        hashalgo |-> eff, cardhash |-> st.cardhash, oldalg |-> st.oldalg,
        ps_alg |-> st.ps_alg, buf |-> buf]

\* piv_sign_prehash for the slot record pc: the body of a reply is [tag,
\* inner, sig], the outer tag, the tag inside it and the bytes inside that.
\* The result holds *signature.
piv_sign_prehash(w, t, pc, hash, rs) ==
    IF ~w.tok[t].pt_intxn THEN Abort(w) @@ [sig |-> NullPtr]
    ELSE
    Force(piv_apdu_transceive_chain(w, t, rs), LAMBDA a :
    IF a.rv = "ABORT" THEN Abort(a.w) @@ [sig |-> NullPtr]
    ELSE IF a.rv # "0" THEN Ret(a.w, "EIO") @@ [sig |-> NullPtr]
    ELSE IF a.sw = SW_NO_ERROR
    THEN IF rs[a.at].body.tag # 124
         THEN Ret(a.w, "ENOTSUP") @@ [sig |-> NullPtr]
         ELSE IF rs[a.at].body.inner # GA_TAG_RESPONSE
         THEN Ret(a.w, "ENOTSUP") @@ [sig |-> NullPtr]
         ELSE Ret(a.w, "0") @@ [sig |-> rs[a.at].body.sig]
    ELSE IF a.sw = SW_SECURITY_STATUS_NOT_SATISFIED
    THEN Ret(a.w, "EPERM") @@ [sig |-> NullPtr]
    ELSE Ret(a.w, "EINVAL") @@ [sig |-> NullPtr])

\* slot->ps_alg = alg for the slot slotid of token t
SetSlotAlg(w, t, slotid, alg) ==
    [w EXCEPT !.tok[t].pt_slots =
        [i \in 1..Len(@) |->
           IF @[i].ps_slot = slotid THEN [@[i] EXCEPT !.ps_alg = alg]
           ELSE @[i]]]

\* piv_sign for the slot slotid of token t, which the caller got from
\* piv_get_slot.  The result holds *hashalgo, *signature and the algorithm
\* and the bytes that went into GENERAL AUTHENTICATE.
piv_sign(w, t, slotid, data, hashalgo, rs) ==
    LET slot == piv_get_slot(w.tok[t], slotid)
        none == [hashalgo |-> hashalgo, sig |-> NullPtr, p1 |-> "NULL",
                 block |-> NullPtr]
    IN
    Force(sign_input(w.tok[t].pt_algs, slot.ps_alg, data, hashalgo),
          LAMBDA in :
    IF ~w.tok[t].pt_intxn \/ ~in.ok THEN Abort(w) @@ none
    ELSE
    Force(piv_sign_prehash(SetSlotAlg(w, t, slotid, in.ps_alg), t,
              [slot EXCEPT !.ps_alg = in.ps_alg], in.buf, rs), LAMBDA s :
    [w |-> IF in.cardhash THEN SetSlotAlg(s.w, t, slotid, in.oldalg)
           ELSE s.w,
     rv |-> s.rv, hashalgo |-> in.hashalgo, sig |-> s.sig,
     p1 |-> in.ps_alg, block |-> in.buf]))

(***************************************************************************)
(* Signing with the keys of a card                                         *)
(***************************************************************************)
\* The private keys a card holds in its four slots.
CardKeys ==
    [s \in PivSlots |->
       IF s = 154 THEN RsaKey(1024, 3, 3)
       ELSE IF s = 156 THEN RsaKey(2048, 5, 5)
       ELSE IF s = 157 THEN SshKey(256, 7, 7)
       ELSE SshKey(384, 9, 9)]
\* The algorithms a card may have listed in its answer to SELECT.
AlgLists ==
    {<<>>, <<"ECCP256_SHA1">>, <<"ECCP256_SHA1", "ECCP256_SHA256">>,
     <<"ECCP256_SHA256", "ECCP256_SHA256">>}
Messages == {<<7>>, <<8, 9>>}
HashAlgos == {SSH_DIGEST_SHA1, SSH_DIGEST_SHA256, SSH_DIGEST_SHA384,
              SSH_DIGEST_SHA512}

\* GENERAL AUTHENTICATE on the card: the signature of the key in the slot
\* over the challenge, which a variant with the card's own hash digests
\* first.  An RSA key signs a block of the size of its modulus only.
CardSign(key, p1, challenge) ==
    IF key.type = "KEY_RSA"
    THEN IF p1 \in {"RSA1024", "RSA2048"} /\ Len(challenge) * 8 = key.bits
         THEN Data([tag |-> 124, inner |-> GA_TAG_RESPONSE,
                    sig |-> RsaPrivate(key.d, challenge)])
         ELSE Answer(SW_WRONG_DATA)
    ELSE IF p1 = "ECCP256_SHA1"
    THEN Data([tag |-> 124, inner |-> GA_TAG_RESPONSE,
               sig |-> EcSign(key.d, Digest(SSH_DIGEST_SHA1, challenge))])
    ELSE IF p1 = "ECCP256_SHA256"
    THEN Data([tag |-> 124, inner |-> GA_TAG_RESPONSE,
               sig |-> EcSign(key.d, Digest(SSH_DIGEST_SHA256, challenge))])
    ELSE IF p1 \in {"ECCP256", "ECCP384"}
    THEN Data([tag |-> 124, inner |-> GA_TAG_RESPONSE,
               sig |-> EcSign(key.d, challenge)])
    ELSE Answer(SW_INCORRECT_P1P2)

\* Replies to GENERAL AUTHENTICATE: the card's answer signed, in one piece
\* or after a 61xx, and replies piv_sign_prehash does not accept.
SignReplies(signed) ==
    {<<signed>>, <<Answer(SW_BYTES_REMAINING_00 + 16), signed>>,
     <<NoReply>>, <<Answer(SW_SECURITY_STATUS_NOT_SATISFIED)>>,
     <<Data([tag |-> 48, inner |-> GA_TAG_RESPONSE, sig |-> <<>>])>>,
     <<Data([tag |-> 124, inner |-> GA_TAG_CHALLENGE, sig |-> <<>>])>>}

\* The verifier of an RSA signature under the digest hashalgo: the public
\* operation gives back the PKCS#1 v1.5 block of the DigestInfo that names
\* hashalgo and holds the digest of the message.
RsaVerify(key, data, hashalgo, sig) ==
    sig # NullPtr
    /\ RsaPublic(key.q, sig) =
         Pkcs1Block(key.bits \div 8,
             i2d_X509_SIG(IF hashalgo = SSH_DIGEST_SHA1 THEN NID_sha1
                          ELSE NID_sha256,
                          Digest(hashalgo, data)))

\* piv_sign with a slot of the token.  Recorded in gh: the slot's algorithm
\* before the call, the message and the digest asked for.
Call_piv_sign(t) ==
    /\ ~aborted /\ Listed(t) /\ tok[t].pt_intxn
    /\ \E slotid \in PivSlots, data \in Messages, hashalgo \in HashAlgos :
         LET slot == piv_get_slot(tok[t], slotid) IN
         /\ slot # NullSlot
         /\ \E in \in {sign_input(tok[t].pt_algs, slot.ps_alg, data,
                                   hashalgo)} :
            \E signed \in {CardSign(card[t].keys[slotid], in.ps_alg,
                                    in.buf)} :
            \E rs \in SignReplies(signed) :
            \E res \in {piv_sign(World, t, slotid, data, hashalgo, rs)} :
              /\ Commit(res.w)
              /\ gh' = [alg |-> slot.ps_alg, data |-> data,
                        hashalgo |-> hashalgo]
              /\ out' = [op |-> "sign", slot |-> slotid,
                         hashalgo |-> res.hashalgo, sig |-> res.sig,
                         p1 |-> res.p1, block |-> res.block,
                         honest |-> rs[Len(rs)] = signed]
              /\ last' = Called("piv_sign", t, res.rv)
    /\ UNCHANGED <<card, box, ser>>

\* piv_read_cert for a slot of the card, which answers with the
\* certificate of its key.
Call_piv_read_cert_key(t) ==
    /\ ~aborted /\ Listed(t) /\ tok[t].pt_intxn
    /\ \E slotid \in PivSlots :
         LET k == card[t].keys[slotid]
             rs == <<Data([tag |-> 83, ci |-> "plain", has70 |-> TRUE,
                           key |-> [k EXCEPT !.d = 0]])>>
             res == piv_read_cert(World, t, slotid, rs, "quiet")
         IN /\ Commit(res.w)
            /\ out' = [op |-> "read", slot |-> slotid]
            /\ last' = Called("piv_read_cert", t, res.rv)
    /\ UNCHANGED <<card, box, gh, ser>>

\* No token has been enumerated yet.
InitClient ==
    /\ tks = <<>>
    /\ tok = [r \in Readers |-> ZeroToken]
    /\ rdr = [r \in Readers |-> ZeroReader]
    /\ obs = [r \in Readers |-> ZeroObs]
    /\ tx_outside = FALSE
    /\ aborted = FALSE
    /\ last = [op |-> "none", tk |-> 0, rv |-> "none", intxn |-> FALSE]
    /\ box = piv_box_new /\ gh = ZeroGh /\ ser = ZeroSer /\ out = ZeroOut

Init ==
    /\ InitClient
    /\ card = [r \in Readers |-> CardYubiKey]

Next ==
    \/ Call_piv_enumerate
    \/ Call_piv_release
    \/ \E t \in Readers : Call_piv_txn_begin(t)
    \/ \E t \in Readers : Call_piv_txn_end(t)
    \/ \E t \in Readers : Call_piv_verify_pin(t)
    \/ \E t \in Readers : Call_piv_change_pin(t)
    \/ \E t \in Readers : Call_piv_auth_admin(t)

Spec == Init /\ [][Next]_vars

(***************************************************************************)
(* The sealed box and one token: the caller has enumerated the token of    *)
(* reader 1, read the certificate of its key management slot, and begun a  *)
(* transaction on it.  The caller fills and seals a box once, and uses it  *)
(* after that.                                                             *)
(***************************************************************************)
CardWithKey ==
    [chuid |-> "guid", yk |-> TRUE, slots |-> [s \in PivSlots |->
       IF s = PIV_SLOT_KEY_MGMT THEN 2 ELSE 0]]
InitBox ==
    /\ tks = <<1>>
    /\ card = [r \in Readers |-> CardWithKey]
    /\ tok = [r \in Readers |->
                IF r = 1
                THEN [ZeroToken EXCEPT
                        !.pt_guid = Guid(1), !.pt_ykpiv = TRUE,
                        !.pt_intxn = TRUE,
                        !.pt_slots = <<Slot(PIV_SLOT_KEY_MGMT, "ECCP256",
                                            SshKey(256, 2, 0))>>]
                ELSE ZeroToken]
    /\ rdr = [r \in Readers |->
                IF r = 1 THEN [depth |-> 1, lastok |-> "begin"]
                ELSE ZeroReader]
    /\ obs = [r \in Readers |-> ZeroObs]
    /\ tx_outside = FALSE
    /\ aborted = FALSE
    /\ last = [op |-> "none", tk |-> 0, rv |-> "none", intxn |-> FALSE]
    /\ box = piv_box_new /\ gh = ZeroGh /\ ser = ZeroSer /\ out = ZeroOut

NextBox ==
    \/ Call_piv_box_new
    \/ Set_pdb_cipher
    \/ Call_piv_box_set_data
    \/ Call_piv_box_seal_offline
    \/ \E t \in Readers : Call_piv_box_seal(t)
    \/ Tamper
    \/ Call_piv_box_open_offline
    \/ \E t \in Readers : Call_piv_box_open(t)
    \/ Call_piv_box_take_data
    \/ Call_piv_box_to_binary
    \/ Call_piv_box_from_binary

SpecBox == InitBox /\ [][NextBox]_vars

(***************************************************************************)
(* The lookup of the token of a box: the caller has enumerated the tokens  *)
(* of all readers; every card holds a key in its key management slot, and  *)
(* either every card has a CHUID with a GUID or none has a CHUID.  The     *)
(* caller reads certificates, one transaction at a time, then fills and    *)
(* seals a box, and then looks for its token.                              *)
(***************************************************************************)
InitFind ==
    \E chuid \in {"guid", "absent"} :
      LET w0 == [tks |-> <<>>, tok |-> [r \in Readers |-> ZeroToken],
                 rdr |-> [r \in Readers |-> ZeroReader],
                 obs |-> [r \in Readers |-> ZeroObs],
                 tx_outside |-> FALSE, aborted |-> FALSE]
          os == [r \in Readers |->
                   EnumOutcome("ok", SCARD_S_SUCCESS, Data("apt"),
                     IF chuid = "guid"
                     THEN Data(ChuidBody(83, TRUE, Guid(r), FALSE))
                     ELSE Answer(SW_FILE_NOT_FOUND),
                     Data(3), SCARD_S_SUCCESS)]
          w == piv_enumerate(w0, os).w
      IN /\ card = [r \in Readers |->
                      [chuid |-> chuid, yk |-> TRUE,
                       slots |-> [s \in PivSlots |->
                          IF s = PIV_SLOT_KEY_MGMT THEN r + 1 ELSE 0]]]
         /\ tks = w.tks /\ tok = w.tok /\ rdr = w.rdr /\ obs = w.obs
         /\ tx_outside = w.tx_outside /\ aborted = w.aborted
         /\ last = [op |-> "none", tk |-> 0, rv |-> "none", intxn |-> FALSE]
         /\ box = piv_box_new /\ gh = ZeroGh /\ ser = ZeroSer
         /\ out = ZeroOut

NextFind ==
    \/ \E t \in Readers :
         /\ box = piv_box_new /\ \A u \in Readers : ~tok[u].pt_intxn
         /\ Call_piv_txn_begin(t)
    \/ \E t \in Readers : box = piv_box_new /\ Call_piv_read_cert(t)
    \/ \E t \in Readers : box = piv_box_new /\ Call_piv_txn_end(t)
    \/ box = piv_box_new /\ Call_piv_box_set_data
    \/ Call_piv_box_seal_offline
    \/ \E t \in Readers : Call_piv_box_seal(t)
    \/ Call_piv_box_find_token

SpecFind == InitFind /\ [][NextFind]_vars

(***************************************************************************)
(* The PIN: the caller has enumerated the token of reader 1, whose card    *)
(* allows MaxTries + 1 wrong PINs in a row, and verifies the PIN inside    *)
(* transactions.                                                           *)
(***************************************************************************)
InitPin ==
    LET w0 == [tks |-> <<>>, tok |-> [r \in Readers |-> ZeroToken],
               rdr |-> [r \in Readers |-> ZeroReader],
               obs |-> [r \in Readers |-> ZeroObs],
               tx_outside |-> FALSE, aborted |-> FALSE]
        os == [r \in Readers |->
                 IF r = 1
                 THEN EnumOutcome("ok", SCARD_S_SUCCESS, Data("apt"),
                        Data(ChuidBody(83, TRUE, Guid(r), FALSE)),
                        Data(3), SCARD_S_SUCCESS)
                 ELSE EnumOutcome("fail", SCARD_S_SUCCESS, NoReply, NoReply,
                                  NoReply, SCARD_S_SUCCESS)]
        w == piv_enumerate(w0, os).w
    IN /\ card = [r \in Readers |-> CardYubiKey @@ [tries |-> MaxTries + 1]]
       /\ tks = w.tks /\ tok = w.tok /\ rdr = w.rdr /\ obs = w.obs
       /\ tx_outside = w.tx_outside /\ aborted = w.aborted
       /\ last = [op |-> "none", tk |-> 0, rv |-> "none", intxn |-> FALSE]
       /\ box = piv_box_new /\ ser = ZeroSer /\ out = ZeroOut
       /\ gh = [reported |-> NONE, prev |-> NONE]

NextPin ==
    \/ \E t \in Readers : Call_piv_txn_begin(t)
    \/ \E t \in Readers : Call_piv_txn_end(t)
    \/ \E t \in Readers : Call_piv_verify_pin_card(t)

SpecPin == InitPin /\ [][NextPin]_vars

(***************************************************************************)
(* Data objects: the caller has enumerated the token of reader 1, whose    *)
(* card holds no certificate yet, and writes and reads certificate objects *)
(* inside transactions.                                                    *)
(***************************************************************************)
InitChain ==
    LET w0 == [tks |-> <<>>, tok |-> [r \in Readers |-> ZeroToken],
               rdr |-> [r \in Readers |-> ZeroReader],
               obs |-> [r \in Readers |-> ZeroObs],
               tx_outside |-> FALSE, aborted |-> FALSE]
        os == [r \in Readers |->
                 IF r = 1
                 THEN EnumOutcome("ok", SCARD_S_SUCCESS, Data("apt"),
                        Data(ChuidBody(83, TRUE, Guid(r), FALSE)),
                        Data(3), SCARD_S_SUCCESS)
                 ELSE EnumOutcome("fail", SCARD_S_SUCCESS, NoReply, NoReply,
                                  NoReply, SCARD_S_SUCCESS)]
        w == piv_enumerate(w0, os).w
    IN /\ \E seg \in SegLens : card = [r \in Readers |-> CardEmpty(seg)]
       /\ tks = w.tks /\ tok = w.tok /\ rdr = w.rdr /\ obs = w.obs
       /\ tx_outside = w.tx_outside /\ aborted = w.aborted
       /\ last = [op |-> "none", tk |-> 0, rv |-> "none", intxn |-> FALSE]
       /\ box = piv_box_new /\ ser = ZeroSer /\ out = ZeroOut
       /\ gh = ZeroWritten

NextChain ==
    \/ \E t \in Readers : Call_piv_txn_begin(t)
    \/ \E t \in Readers : Call_piv_txn_end(t)
    \/ \E t \in Readers : Call_piv_write_cert(t)
    \/ \E t \in Readers : Call_piv_write_file(t)
    \/ \E t \in Readers : Call_piv_read_cert_object(t)

SpecChain == InitChain /\ [][NextChain]_vars

(***************************************************************************)
(* SpecApdu: the client has enumerated the token of reader 1, whose card   *)
(* answers by a script, and calls piv_apdu_transceive_chain inside         *)
(* transactions.                                                           *)
(***************************************************************************)
InitApdu ==
    LET w0 == [tks |-> <<>>, tok |-> [r \in Readers |-> ZeroToken],
               rdr |-> [r \in Readers |-> ZeroReader],
               obs |-> [r \in Readers |-> ZeroObs],
               tx_outside |-> FALSE, aborted |-> FALSE]
        os == [r \in Readers |->
                 IF r = 1
                 THEN EnumOutcome("ok", SCARD_S_SUCCESS, Data("apt"),
                        Data(ChuidBody(83, TRUE, Guid(r), FALSE)),
                        Data(3), SCARD_S_SUCCESS)
                 ELSE EnumOutcome("fail", SCARD_S_SUCCESS, NoReply, NoReply,
                                  NoReply, SCARD_S_SUCCESS)]
        w == piv_enumerate(w0, os).w
    IN /\ \E sc \in Scripts :
            card = [r \in Readers |->
                      CardScripted(IF r = 1 THEN sc ELSE <<>>)]
       /\ tks = w.tks /\ tok = w.tok /\ rdr = w.rdr /\ obs = w.obs
       /\ tx_outside = w.tx_outside /\ aborted = w.aborted
       /\ last = [op |-> "none", tk |-> 0, rv |-> "none", intxn |-> FALSE]
       /\ box = piv_box_new /\ ser = ZeroSer /\ out = ZeroOut
       /\ gh = ZeroWritten

NextApdu ==
    \/ \E t \in Readers : Call_piv_txn_begin(t)
    \/ \E t \in Readers : Call_piv_txn_end(t)
    \/ \E t \in Readers : Call_piv_apdu_transceive_chain(t)

SpecApdu == InitApdu /\ [][NextApdu]_vars

(***************************************************************************)
(* SpecLoop: the client has enumerated the token of reader 1 and calls     *)
(* piv_apdu_transceive_chain inside transactions; every APDU is a step of  *)
(* its own, answered by the card as the card likes, and every step that    *)
(* can be taken is taken in the end.                                       *)
(***************************************************************************)
InitLoop ==
    LET w0 == [tks |-> <<>>, tok |-> [r \in Readers |-> ZeroToken],
               rdr |-> [r \in Readers |-> ZeroReader],
               obs |-> [r \in Readers |-> ZeroObs],
               tx_outside |-> FALSE, aborted |-> FALSE]
        os == [r \in Readers |->
                 IF r = 1
                 THEN EnumOutcome("ok", SCARD_S_SUCCESS, Data("apt"),
                        Data(ChuidBody(83, TRUE, Guid(r), FALSE)),
                        Data(3), SCARD_S_SUCCESS)
                 ELSE EnumOutcome("fail", SCARD_S_SUCCESS, NoReply, NoReply,
                                  NoReply, SCARD_S_SUCCESS)]
        w == piv_enumerate(w0, os).w
    IN /\ card = [r \in Readers |-> CardScripted(<<>>)]
       /\ tks = w.tks /\ tok = w.tok /\ rdr = w.rdr /\ obs = w.obs
       /\ tx_outside = w.tx_outside /\ aborted = w.aborted
       /\ last = [op |-> "none", tk |-> 0, rv |-> "none", intxn |-> FALSE]
       /\ box = piv_box_new /\ ser = ZeroSer
       /\ out = ChainAt("idle", piv_apdu_make(0, 0, 0, 0, <<>>), 0)
       /\ gh = ZeroWritten

NextLoop ==
    \/ \E t \in Readers : out.pc # "get" /\ Call_piv_txn_begin(t)
    \/ \E t \in Readers : out.pc # "get" /\ Call_piv_txn_end(t)
    \/ \E t \in Readers : Chain_begin(t)
    \/ \E t \in Readers : Chain_get_response(t)
    \/ \E t \in Readers : Chain_end(t)

SpecLoop ==
    /\ InitLoop /\ [][NextLoop]_vars
    /\ WF_vars(\E t \in Readers : Chain_get_response(t))
    /\ WF_vars(\E t \in Readers : Chain_end(t))

(***************************************************************************)
(* SpecSlots: the client has enumerated the tokens of all readers and      *)
(* reads the certificates of the four slots in any order, any number of    *)
(* times, with cards that give a certificate or fail in every way          *)
(* piv_read_cert tells apart.                                              *)
(***************************************************************************)
InitSlots ==
    LET w0 == [tks |-> <<>>, tok |-> [r \in Readers |-> ZeroToken],
               rdr |-> [r \in Readers |-> ZeroReader],
               obs |-> [r \in Readers |-> ZeroObs],
               tx_outside |-> FALSE, aborted |-> FALSE]
        os == [r \in Readers |->
                 IF r = 1
                 THEN EnumOutcome("ok", SCARD_S_SUCCESS, Data("apt"),
                        Data(ChuidBody(83, TRUE, Guid(r), FALSE)),
                        Data(3), SCARD_S_SUCCESS)
                 ELSE EnumOutcome("fail", SCARD_S_SUCCESS, NoReply, NoReply,
                                  NoReply, SCARD_S_SUCCESS)]
        w == piv_enumerate(w0, os).w
    IN /\ card = [r \in Readers |-> CardYubiKey]
       /\ tks = w.tks /\ tok = w.tok /\ rdr = w.rdr /\ obs = w.obs
       /\ tx_outside = w.tx_outside /\ aborted = w.aborted
       /\ last = [op |-> "none", tk |-> 0, rv |-> "none", intxn |-> FALSE]
       /\ box = piv_box_new /\ ser = ZeroSer /\ out = ZeroOut
       /\ gh = ZeroRecent

NextSlots ==
    \/ \E t \in Readers : Call_piv_txn_begin(t)
    \/ \E t \in Readers : Call_piv_txn_end(t)
    \/ \E t \in Readers : Call_piv_read_cert_slot(t)

SpecSlots == InitSlots /\ [][NextSlots]_vars

(***************************************************************************)
(* SpecReadAll: the client has enumerated the tokens of all readers and    *)
(* calls piv_read_all_certs, with cards that answer each of the four reads *)
(* with a certificate or with one of the failures.                         *)
(***************************************************************************)
InitReadAll ==
    LET w0 == [tks |-> <<>>, tok |-> [r \in Readers |-> ZeroToken],
               rdr |-> [r \in Readers |-> ZeroReader],
               obs |-> [r \in Readers |-> ZeroObs],
               tx_outside |-> FALSE, aborted |-> FALSE]
        os == [r \in Readers |->
                 IF r = 1
                 THEN EnumOutcome("ok", SCARD_S_SUCCESS, Data("apt"),
                        Data(ChuidBody(83, TRUE, Guid(r), FALSE)),
                        Data(3), SCARD_S_SUCCESS)
                 ELSE EnumOutcome("fail", SCARD_S_SUCCESS, NoReply, NoReply,
                                  NoReply, SCARD_S_SUCCESS)]
        w == piv_enumerate(w0, os).w
    IN /\ card = [r \in Readers |-> CardYubiKey]
       /\ tks = w.tks /\ tok = w.tok /\ rdr = w.rdr /\ obs = w.obs
       /\ tx_outside = w.tx_outside /\ aborted = w.aborted
       /\ last = [op |-> "none", tk |-> 0, rv |-> "none", intxn |-> FALSE]
       /\ box = piv_box_new /\ ser = ZeroSer /\ out = ZeroOut
       /\ gh = ZeroGh

NextReadAll ==
    \/ \E t \in Readers : Call_piv_txn_begin(t)
    \/ \E t \in Readers : Call_piv_txn_end(t)
    \/ \E t \in Readers : Call_piv_read_all_certs(t)

SpecReadAll == InitReadAll /\ [][NextReadAll]_vars

(***************************************************************************)
(* SpecEnvelope: the caller has enumerated the tokens of all readers,      *)
(* whose cards hold a key in the key management slot and either all have   *)
(* a CHUID with a GUID or none has one.  Outside transactions it reads     *)
(* envelopes that come from outside with piv_box_from_binary and looks for *)
(* the token of each.                                                      *)
(***************************************************************************)
InitEnvelope == InitFind

NextEnvelope ==
    \/ Call_piv_box_from_binary_env
    \/ Call_piv_box_find_token

SpecEnvelope == InitEnvelope /\ [][NextEnvelope]_vars

(***************************************************************************)
(* SpecPinBytes: the client has enumerated the token of reader 1 and gives *)
(* PINs of 1 to 8 characters to piv_verify_pin and piv_change_pin inside   *)
(* transactions; the card records the APDUs it receives.                   *)
(***************************************************************************)
InitPinBytes ==
    LET w0 == [tks |-> <<>>, tok |-> [r \in Readers |-> ZeroToken],
               rdr |-> [r \in Readers |-> ZeroReader],
               obs |-> [r \in Readers |-> ZeroObs],
               tx_outside |-> FALSE, aborted |-> FALSE]
        os == [r \in Readers |->
                 IF r = 1
                 THEN EnumOutcome("ok", SCARD_S_SUCCESS, Data("apt"),
                        Data(ChuidBody(83, TRUE, Guid(r), FALSE)),
                        Data(3), SCARD_S_SUCCESS)
                 ELSE EnumOutcome("fail", SCARD_S_SUCCESS, NoReply, NoReply,
                                  NoReply, SCARD_S_SUCCESS)]
        w == piv_enumerate(w0, os).w
    IN /\ \E sc \in PinScripts :
            card = [r \in Readers |->
                      CardScripted(IF r = 1 THEN sc ELSE <<>>)]
       /\ tks = w.tks /\ tok = w.tok /\ rdr = w.rdr /\ obs = w.obs
       /\ tx_outside = w.tx_outside /\ aborted = w.aborted
       /\ last = [op |-> "none", tk |-> 0, rv |-> "none", intxn |-> FALSE]
       /\ box = piv_box_new /\ ser = ZeroSer /\ out = ZeroOut
       /\ gh = ZeroWritten

NextPinBytes ==
    \/ \E t \in Readers : Call_piv_txn_begin(t)
    \/ \E t \in Readers : Call_piv_txn_end(t)
    \/ \E t \in Readers : Call_piv_verify_pin_bytes(t)
    \/ \E t \in Readers : Call_piv_change_pin_bytes(t)

SpecPinBytes == InitPinBytes /\ [][NextPinBytes]_vars

(***************************************************************************)
(* SpecSelect: the client has enumerated the token of reader 1 and, inside *)
(* transactions, calls piv_select, to which the card answers with          *)
(* templates that list some number of algorithms.                          *)
(***************************************************************************)
InitSelect ==
    LET w0 == [tks |-> <<>>, tok |-> [r \in Readers |-> ZeroToken],
               rdr |-> [r \in Readers |-> ZeroReader],
               obs |-> [r \in Readers |-> ZeroObs],
               tx_outside |-> FALSE, aborted |-> FALSE]
        os == [r \in Readers |->
                 IF r = 1
                 THEN EnumOutcome("ok", SCARD_S_SUCCESS, Data("apt"),
                        Data(ChuidBody(83, TRUE, Guid(r), FALSE)),
                        Data(3), SCARD_S_SUCCESS)
                 ELSE EnumOutcome("fail", SCARD_S_SUCCESS, NoReply, NoReply,
                                  NoReply, SCARD_S_SUCCESS)]
        w == piv_enumerate(w0, os).w
    IN /\ \E sc \in SelectScripts :
            card = [r \in Readers |->
                      CardScripted(IF r = 1 THEN sc ELSE <<>>)]
       /\ tks = w.tks /\ tok = w.tok /\ rdr = w.rdr /\ obs = w.obs
       /\ tx_outside = w.tx_outside /\ aborted = w.aborted
       /\ last = [op |-> "none", tk |-> 0, rv |-> "none", intxn |-> FALSE]
       /\ box = piv_box_new /\ ser = ZeroSer /\ out = ZeroOut
       /\ gh = ZeroAlgs

NextSelect ==
    \/ \E t \in Readers : Call_piv_txn_begin(t)
    \/ \E t \in Readers : Call_piv_txn_end(t)
    \/ \E t \in Readers : Call_piv_select_bytes(t)

SpecSelect == InitSelect /\ [][NextSelect]_vars

(***************************************************************************)
(* SpecLongPin: the client has enumerated the token of reader 1 and gives  *)
(* PINs of up to 17 characters to piv_verify_pin and piv_change_pin inside *)
(* transactions.                                                           *)
(***************************************************************************)
InitLongPin == InitPinBytes

NextLongPin ==
    \/ \E t \in Readers : Call_piv_txn_begin(t)
    \/ \E t \in Readers : Call_piv_txn_end(t)
    \/ \E t \in Readers : Call_piv_verify_pin_any(t)
    \/ \E t \in Readers : Call_piv_change_pin_any(t)

SpecLongPin == InitLongPin /\ [][NextLongPin]_vars

(***************************************************************************)
(* Signing: the caller has enumerated the token of reader 1 and read the   *)
(* certificates of its four slots; the card has listed some algorithms.    *)
(***************************************************************************)
InitSign ==
    LET w0 == [tks |-> <<>>, tok |-> [r \in Readers |-> ZeroToken],
               rdr |-> [r \in Readers |-> ZeroReader],
               obs |-> [r \in Readers |-> ZeroObs],
               tx_outside |-> FALSE, aborted |-> FALSE]
        os == [r \in Readers |->
                 IF r = 1
                 THEN EnumOutcome("ok", SCARD_S_SUCCESS, Data("apt"),
                        Data(ChuidBody(83, TRUE, Guid(r), FALSE)),
                        Data(3), SCARD_S_SUCCESS)
                 ELSE EnumOutcome("fail", SCARD_S_SUCCESS, NoReply, NoReply,
                                  NoReply, SCARD_S_SUCCESS)]
        w == piv_enumerate(w0, os).w
    IN /\ card = [r \in Readers |-> CardYubiKey @@ [keys |-> CardKeys]]
       /\ tks = w.tks /\ rdr = w.rdr /\ obs = w.obs
       /\ \E algs \in AlgLists :
            tok = [r \in Readers |->
                     [w.tok[r] EXCEPT !.pt_slots =
                        IF r # 1 THEN @
                        ELSE << Slot(158, "ECCP384", SshKey(384, 9, 0)),
                                Slot(157, "ECCP256", SshKey(256, 7, 0)),
                                Slot(156, "RSA2048", RsaKey(2048, 5, 0)),
                                Slot(154, "RSA1024", RsaKey(1024, 3, 0)) >>]
                     @@ [pt_algs |-> algs]]
       /\ tx_outside = w.tx_outside /\ aborted = w.aborted
       /\ last = [op |-> "none", tk |-> 0, rv |-> "none", intxn |-> FALSE]
       /\ box = piv_box_new /\ ser = ZeroSer /\ out = ZeroOut
       /\ gh = [alg |-> "NULL", data |-> <<>>, hashalgo |-> 0]

NextSign ==
    \/ \E t \in Readers : Call_piv_txn_begin(t)
    \/ \E t \in Readers : Call_piv_txn_end(t)
    \/ \E t \in Readers : Call_piv_sign(t)
    \/ \E t \in Readers : Call_piv_read_cert_key(t)

SpecSign == InitSign /\ [][NextSign]_vars

(***************************************************************************)
(* Enumeration: every reader holds a card whose CHUID has a GUID, has none *)
(* or is missing; the caller enumerates and releases.                      *)
(***************************************************************************)
ChuidKinds == {"guid", "noguid", "absent"}

InitEnum ==
    /\ InitClient
    /\ \E kinds \in [Readers -> ChuidKinds] :
         card = [r \in Readers |-> [CardYubiKey EXCEPT !.chuid = kinds[r]]]

NextEnum ==
    \/ Call_piv_enumerate
    \/ Call_piv_release
    \/ \E t \in Readers : Call_piv_txn_begin(t)
    \/ \E t \in Readers : Call_piv_txn_end(t)

SpecEnum == InitEnum /\ [][NextEnum]_vars

(***************************************************************************)
(* SpecReaders: the client enumerates the tokens, with cards that are in   *)
(* order and readers that fail at any step, uses transactions on the       *)
(* tokens it got and releases them.                                        *)
(***************************************************************************)
InitReaders == InitEnum

NextReaders ==
    \/ Call_piv_enumerate_readers
    \/ Call_piv_release
    \/ \E t \in Readers : Call_piv_txn_begin(t)
    \/ \E t \in Readers : Call_piv_txn_end(t)

SpecReaders == InitReaders /\ [][NextReaders]_vars

(***************************************************************************)
(* Transactions and the reset policy                                       *)
(***************************************************************************)
\* C1: no APDU has been passed to a card while its token was outside a
\* transaction: every SCardTransmit happened with the token's
\* in-transaction flag set and one transaction of the reader open on it.
C1_ApduOnlyInTxn == tx_outside = FALSE

\* An operation that sends an APDU has returned without stopping the process.
C1_Witness ==
    /\ last.op \in {"piv_verify_pin", "piv_change_pin", "piv_auth_admin"}
    /\ last.rv # "ABORT"
    /\ tok[last.tk].pt_intxn
    /\ obs[last.tk].tried

\* C2 as amended: a piv_txn_begin of a token whose in-transaction flag is
\* set, and a piv_txn_end of a token whose flag is clear, stop the process;
\* the reader's transactions on a token never overlap, and the flag is set
\* exactly while one is open: the SCardBeginTransaction calls that succeed
\* and the SCardEndTransaction calls alternate, a begin first.
C2_TxnAlternate ==
    /\ \A t \in Readers :
         /\ rdr[t].depth \in {0, 1}
         /\ tok[t].pt_intxn <=> rdr[t].depth = 1
    /\ last.op = "piv_txn_begin" /\ last.intxn => aborted
    /\ last.op = "piv_txn_end" /\ ~last.intxn => aborted

\* piv_txn_begin was called on a token in a transaction.
C2_Witness ==
    /\ last.op = "piv_txn_begin" /\ last.intxn /\ aborted
    /\ rdr[last.tk].depth = 1

\* C2 as stated: the calls of the reader's begin-transaction and
\* end-transaction on one token that succeed alternate strictly, so a
\* SCardBeginTransaction that succeeds never follows one that succeeded
\* with no successful SCardEndTransaction between them.
C2_SuccessfulCallsAlternate ==
    [][\A t \in Readers :
          (Listed(t) /\ last'.op = "piv_txn_begin" /\ last'.tk = t
             /\ last'.rv = "0")
          => rdr[t].lastok # "begin"]_vars

\* C3: the transaction that was closed last on a token, if one of
\* piv_verify_pin, piv_change_pin and piv_auth_admin had returned 0 in it,
\* was closed with the disposition SCARD_RESET_CARD.
C3_AuthThenReset ==
    \A t \in Readers :
      obs[t].end_authok => obs[t].disp = SCARD_RESET_CARD

\* A transaction in which an authentication succeeded has been closed.
C3_Witness ==
    /\ last.op = "piv_txn_end" /\ last.rv = "void"
    /\ obs[last.tk].end_authok

\* C4: piv_txn_end gave the reader SCARD_RESET_CARD if the must-reset flag
\* was set when it was called and SCARD_LEAVE_CARD if it was clear, and
\* SCARD_LEAVE_CARD when no authentication-changing operation had been
\* called in the transaction.
C4_DispositionFollowsFlag ==
    \A t \in Readers :
      obs[t].disp # "NONE" =>
        /\ obs[t].disp = IF obs[t].end_reset THEN SCARD_RESET_CARD
                         ELSE SCARD_LEAVE_CARD
        /\ ~obs[t].end_tried => obs[t].disp = SCARD_LEAVE_CARD

\* A transaction with no authentication attempt has been closed after one
\* in which the must-reset flag was set.
C4_Witness ==
    /\ last.op = "piv_txn_end" /\ last.rv = "void"
    /\ obs[last.tk].disp = SCARD_LEAVE_CARD
    /\ ~obs[last.tk].end_tried
    /\ \E t \in Readers : obs[t].disp = SCARD_RESET_CARD /\ obs[t].end_reset

(***************************************************************************)
(* The sealed box                                                          *)
(***************************************************************************)
\* C5: when a plaintext was sealed to the public key of an EC key pair
\* with piv_box_seal_offline and the box opened with the pair's private key
\* with piv_box_open_offline, piv_box_take_data gives the plaintext back:
\* the same bytes and the same length, whatever the block size of the
\* cipher.
C5_OfflineRoundTrip ==
    (last.op = "piv_box_take_data" /\ out.opened = "offline")
    => (last.rv = "0" /\ out.data = gh.plain /\ out.len = Len(gh.plain))

\* C6: piv_box_open_offline of a sealed box of which a byte of the
\* ciphertext, of the tag or of the IV was altered, or the ephemeral key
\* replaced, returns EBADMSG, and the process goes on.
C6_TamperedIsBadMessage ==
    (last.op = "piv_box_open_offline" /\ gh.tampered /\ out.owner)
    => (last.rv = "EBADMSG" /\ ~aborted)

\* C7: a piv_box_open that returns has returned the error of piv_ecdh when
\* that failed and EBADMSG when cipher_crypt failed; when it has not
\* returned 0 the plaintext buffer of the box is what it was before the
\* call, and when it has returned 0 the buffer holds the decrypted
\* plaintext.
C7_OpenFailureKeepsPlain ==
    (last.op = "piv_box_open" /\ last.rv # "ABORT") =>
      /\ out.ecdh # "0" => last.rv = out.ecdh
      /\ (out.ecdh = "0" /\ out.crypt # "0") => last.rv = "EBADMSG"
      /\ last.rv # "0" => box.pdb_plain = out.pre_plain
      /\ last.rv = "0" =>
           /\ out.ecdh = "0" /\ out.crypt = "0"
           /\ box.pdb_plain.b_data # NullPtr
           /\ box.pdb_plain.b_size =
                box.pdb_enc.b_size - cipher_by_name(box.pdb_cipher).auth_len
           /\ SubSeq(box.pdb_plain.b_data, 1, Len(gh.plain)) = gh.plain

\* A piv_box_open of a box that held a plaintext has failed to decrypt.
C7_Witness ==
    /\ last.op = "piv_box_open" /\ last.rv = "EBADMSG"
    /\ out.pre_plain.b_data # NullPtr
    /\ box.pdb_plain = out.pre_plain

\* C8: piv_box_from_binary of the bytes piv_box_to_binary made of a sealed
\* box returns 0 with a box of the same GUID, slot, ephemeral key,
\* recipient key, cipher, KDF, IV and ciphertext; the bytes begin with the
\* version 1, the GUID as a string and the slot, and the other fields
\* follow in the order piv_box_from_binary reads them.
C8_BinaryRoundTrip ==
    (last.op = "piv_box_from_binary" /\ out.input = "whole") =>
      /\ last.rv = "0"
      /\ out.pbox.pdb_guid = ser.of.pdb_guid
      /\ out.pbox.pdb_slot = ser.of.pdb_slot
      /\ out.pbox.pdb_ephem_pub = ser.of.pdb_ephem_pub
      /\ out.pbox.pdb_pub = ser.of.pdb_pub
      /\ out.pbox.pdb_cipher = ser.of.pdb_cipher
      /\ out.pbox.pdb_kdf = ser.of.pdb_kdf
      /\ Bytes(out.pbox.pdb_iv) = Bytes(ser.of.pdb_iv)
      /\ Bytes(out.pbox.pdb_enc) = Bytes(ser.of.pdb_enc)
      /\ ser.bytes[1] = 1
      /\ SubSeq(ser.bytes, 2, 5) = <<0, 0, 0, GuidLen>>
      /\ SubSeq(ser.bytes, 6, 5 + GuidLen) = ser.of.pdb_guid
      /\ ser.bytes[6 + GuidLen] = ser.of.pdb_slot

\* The bytes of a box sealed to a slot of a token have been parsed.
C8_Witness ==
    /\ last.op = "piv_box_from_binary" /\ out.input = "whole"
    /\ last.rv = "0"
    /\ ser.of.pdb_slot = PIV_SLOT_KEY_MGMT
    /\ ser.of.pdb_guid = Guid(1)
    /\ out.pbox.pdb_enc.b_size > 16

(***************************************************************************)
(* The lookup of the token of a box                                        *)
(***************************************************************************)
\* C9: when piv_box_find_token has returned 0, the token it gave is in the
\* list, the slot it gave is a slot of that token, and the public key of
\* the slot equals the recipient key of the box; when it has returned
\* anything else, it has written neither *tk nor *slot.
C9_FindTokenSound ==
    (last.op = "piv_box_find_token" /\ ~aborted) =>
      IF last.rv = "0"
      THEN /\ Listed(out.tk)
           /\ \E i \in 1..Len(tok[out.tk].pt_slots) :
                 tok[out.tk].pt_slots[i] = out.slot
           /\ sshkey_equal_public(out.slot.ps_pubkey, box.pdb_pub)
      ELSE out.tk = NONE /\ out.slot = NullSlot

\* A box sealed without a token, to the key of the key management slot of
\* token 2, has been found on token 2, no token having the GUID of the box.
C9_Witness ==
    /\ last.op = "piv_box_find_token" /\ last.rv = "0"
    /\ box.pdb_guid = GuidZero /\ box.pdb_slot = 0
    /\ out.tk = 2 /\ tok[2].pt_guid = Guid(2)
    /\ out.slot.ps_slot = PIV_SLOT_KEY_MGMT

\* C10: when a token of the list holds the recipient key of the box in the
\* slot the box names, and every reader begins a transaction when asked and
\* every card gives the certificate it holds, a piv_box_find_token that
\* returns returns 0 and gives a slot with that key, whichever token has
\* the GUID of the box.
C10_FindTokenComplete ==
    (/\ last.op = "piv_box_find_token" /\ ~aborted /\ out.sound
     /\ \E t \in Readers :
          /\ Listed(t)
          /\ sshkey_equal_public(
                piv_get_slot(tok[t], box.pdb_slot).ps_pubkey, box.pdb_pub))
    => (last.rv = "0"
        /\ sshkey_equal_public(out.slot.ps_pubkey, box.pdb_pub))

(***************************************************************************)
(* The PIN                                                                 *)
(***************************************************************************)
\* C11: when piv_verify_pin has sent the VERIFY with the PIN: a reply 9000
\* gives 0 and sets the must-reset flag; a reply 63Cx gives EACCES and
\* stores x in *retries when retries is not NULL; a reply that did not
\* arrive gives EIO; any other status gives EINVAL.  Against a card that
\* counts the wrong PINs, the value stored after a wrong PIN is less than
\* the one stored after the wrong PIN before it.
C11_VerifyPinMapping ==
    (/\ last.op = "piv_verify_pin" /\ out.op = "verify"
     /\ out.sent # <<>> /\ out.sent[Len(out.sent)] = "pin")
    => /\ out.r2 = NoReply => last.rv = "EIO"
       /\ out.r2 = Answer(SW_NO_ERROR)
            => last.rv = "0" /\ tok[last.tk].pt_reset
       /\ \A x \in 0..15 :
            out.r2 = Answer(SW_INCORRECT_PIN + x)
            => /\ last.rv = "EACCES"
               /\ out.stored = IF out.retries = NONE THEN NONE ELSE x
       /\ out.r2 \in {Answer(SW_WRONG_DATA), Answer(27011)}
            => last.rv = "EINVAL" /\ out.stored = out.retries
       /\ (last.rv = "EACCES" /\ out.retries # NONE /\ gh.prev # NONE)
            => gh.reported < gh.prev

\* Two wrong PINs in a row have been reported to a caller who gave retries.
C11_Witness ==
    /\ last.op = "piv_verify_pin" /\ out.op = "verify"
    /\ last.rv = "EACCES" /\ out.retries = 0
    /\ gh.prev = MaxTries /\ gh.reported = MaxTries - 1
    /\ card[last.tk].tries = gh.reported

\* C12: when piv_verify_pin is given retries with a value m > 0, it sends
\* the VERIFY without data first, and when the card answers that with 63Cx,
\* x <= m, it sends nothing more and does not return 0: the card has as
\* many tries left as before the call.
C12_PreflightSparesTry ==
    (/\ last.op = "piv_verify_pin" /\ out.op = "verify"
     /\ out.retries # NONE /\ out.retries > 0)
    => /\ out.sent # <<>> /\ out.sent[1] = "empty"
       /\ (\E x \in 0..out.retries :
              out.r1 = Answer(SW_INCORRECT_PIN + x))
            => /\ out.sent = <<"empty">>
               /\ last.rv = "EAGAIN"
               /\ card[last.tk].tries = out.tries

\* The card had one try left, the caller asked for more than that to be
\* left, and the PIN was not sent.
C12_Witness ==
    /\ last.op = "piv_verify_pin" /\ out.op = "verify"
    /\ out.retries = 1 /\ out.tries = 1
    /\ out.r1 = Answer(SW_INCORRECT_PIN + 1)
    /\ last.rv = "EAGAIN" /\ card[last.tk].tries = 1

C14_EffectiveHash ==
    (last.op = "piv_sign" /\ last.rv # "ABORT"
       /\ gh.alg \in {"RSA1024", "RSA2048", "ECCP256", "ECCP384"}) =>
        LET eff == IF gh.alg = "ECCP384" THEN SSH_DIGEST_SHA384
                   ELSE IF gh.hashalgo = SSH_DIGEST_SHA1
                   THEN SSH_DIGEST_SHA1 ELSE SSH_DIGEST_SHA256
            dg == Digest(eff, gh.data)
            n == Len(out.block)
        IN /\ out.hashalgo = eff
           /\ out.p1 \in {"RSA1024", "RSA2048"} =>
                  SubSeq(out.block, n - Len(dg) + 1, n) = dg
           /\ out.p1 \in {"ECCP256", "ECCP384"} =>
                  SubSeq(out.block, 1, Len(dg)) = dg
           /\ out.p1 = "ECCP256_SHA1" =>
                  eff = SSH_DIGEST_SHA1 /\ out.block = gh.data
           /\ out.p1 = "ECCP256_SHA256" =>
                  eff = SSH_DIGEST_SHA256 /\ out.block = gh.data

\* A signature with the RSA-2048 key was asked for with SHA-512 and made
\* with SHA-256.
C14_Witness ==
    /\ last.op = "piv_sign" /\ last.rv = "0"
    /\ gh.alg = "RSA2048" /\ gh.hashalgo = SSH_DIGEST_SHA512
    /\ out.hashalgo = SSH_DIGEST_SHA256

\* C15: a signature piv_sign has got from the card with an RSA key verifies
\* with the public key of the slot under the digest algorithm left in
\* *hashalgo: the DigestInfo in the signed block names that algorithm and
\* holds a digest of its length.
C15_DigestInfoNamesHash ==
    (last.op = "piv_sign" /\ last.rv = "0" /\ out.honest
       /\ gh.alg \in {"RSA1024", "RSA2048"}) =>
        RsaVerify(piv_get_slot(tok[last.tk], out.slot).ps_pubkey, gh.data,
                  out.hashalgo, out.sig)

\* C16: the block piv_sign passes to GENERAL AUTHENTICATE for a slot of
\* algorithm RSA-1024 or RSA-2048 is as long as the modulus (128 or 256
\* bytes), begins with 00 01, goes on with FF up to a single 00, and ends
\* with a DigestInfo, right behind that 00, which holds the digest of the
\* message.
C16_Pkcs1Framing ==
    (last.op = "piv_sign" /\ last.rv # "ABORT"
       /\ gh.alg \in {"RSA1024", "RSA2048"}) =>
        LET b == out.block
            n == IF gh.alg = "RSA1024" THEN 128 ELSE 256
            dg == Digest(out.hashalgo, gh.data)
        IN /\ Len(b) = n
           /\ b[1] = 0 /\ b[2] = 1
           /\ \E p \in 3..n :
                /\ b[p] = 0
                /\ \A i \in 3..(p - 1) : b[i] = 255
                /\ \E nid \in {NID_sha1, NID_sha256} :
                     SubSeq(b, p + 1, n) = i2d_X509_SIG(nid, dg)

\* The card has signed a block of 128 bytes made for the RSA-1024 key.
C16_Witness ==
    /\ last.op = "piv_sign" /\ last.rv = "0" /\ out.honest
    /\ gh.alg = "RSA1024" /\ Len(out.block) = 128

\* C17: piv_sign leaves the algorithm of the slot as it found it, whatever
\* algorithms the card has listed and whatever the card answers, so every
\* slot of a token has one of the algorithms RSA-1024, RSA-2048, ECC-P256
\* and ECC-P384, the one of the type and size of its public key.
C17_SignKeepsSlotAlg ==
    /\ (last.op = "piv_sign" /\ last.rv # "ABORT") =>
           piv_get_slot(tok[last.tk], out.slot).ps_alg = gh.alg
    /\ ~aborted =>
           \A t \in Readers : \A i \in 1..Len(tok[t].pt_slots) :
               LET s == tok[t].pt_slots[i] IN
               s.ps_alg = (IF s.ps_pubkey.type = "KEY_RSA"
                           THEN IF s.ps_pubkey.bits = 1024 THEN "RSA1024"
                                ELSE "RSA2048"
                           ELSE IF s.ps_pubkey.bits = 256 THEN "ECCP256"
                                ELSE "ECCP384")

(***************************************************************************)
(* Enumeration                                                             *)
(***************************************************************************)
\* C18: every token in the list piv_enumerate has returned either has the
\* no-CHUID flag set or has as its GUID the 16 bytes of tag 0x34 of the
\* CHUID its card gave, whatever the cards answer to the reading of the
\* CHUID.
C18_GuidOrNoChuid ==
    ~aborted =>
        \A i \in 1..Len(tks) :
            \/ tok[tks[i]].pt_nochuid
            \/ /\ card[tks[i]].chuid = "guid"
               /\ tok[tks[i]].pt_guid = Guid(tks[i])

\* C20: no answer of a card stops the process: piv_enumerate is not stopped
\* by an assertion while it holds a transaction on a card, which is when it
\* reads what the card answers to SELECT, to the reading of the CHUID and
\* to GET VERSION; such answers come out as error values and the reader is
\* left out of the list.
C20_NoAbortOnCardInput ==
    (last.op = "piv_enumerate" /\ last.rv = "ABORT") =>
        \A r \in Readers : rdr[r].depth = 0

(***************************************************************************)
(* Secrets                                                                 *)
(***************************************************************************)
\* C19: a buffer that has held a PIN is zeroed before it goes out of scope:
\* when piv_verify_pin returns, with whatever result, the eight bytes of its
\* local PIN buffer are zero.
C19_PinBufferZeroed ==
    (last.op = "piv_verify_pin" /\ last.rv # "ABORT") =>
        out.pinbuf = [i \in 1..8 |-> 0]

(***************************************************************************)
(* Command and response chaining                                           *)
(***************************************************************************)
\* A call of piv_apdu_transceive_chain has been made and recorded.
ChainCalled == last.op = "piv_apdu_transceive_chain" /\ out.op = "chain"
\* The number of slices of the command data: ceil(L / 255).
NumSlices == (Len(out.data) + 254) \div 255
\* The command APDUs among those the card received.
CommandApdus == SelectSeq(out.log, LAMBDA a : a.ins # INS_CONTINUE)
\* The answers to the first n APDUs all let the chain go on.
\* A status word with the high byte 0x90, 0x61, 0x62 or 0x63.
ContinueStatus(sw) == sw \div 256 \in {144, 97, 98, 99}
AllContinue(n) ==
    \A i \in 1..n : i <= Len(out.replies) => ContinueStatus(out.replies[i].sw)

\* C21: when the answers to all the slices but the last let the chain go
\* on, the card receives exactly ceil(L/255) command APDUs, in order; all
\* but the last carry 255 bytes of data with the chain bit set, the last
\* the 1..255 bytes that remain with the chain bit clear, and the data of
\* the slices put together are the command data.
C21_CommandChaining ==
    (ChainCalled /\ last.rv = "0" /\ AllContinue(NumSlices - 1)) =>
        /\ Len(CommandApdus) = NumSlices
        /\ \A i \in 1..NumSlices :
             /\ out.log[i].ins = INS_PUT_DATA
             /\ out.log[i].p1 = 63 /\ out.log[i].p2 = 255
             /\ out.log[i].data =
                    SubSeq(out.data, 255 * (i - 1) + 1,
                           IF i < NumSlices THEN 255 * i ELSE Len(out.data))
             /\ HasChain(out.log[i].cls) <=> i < NumSlices
             /\ Len(out.log[i].data) \in 1..255

\* A command of three slices has been sent whole.
C21_Witness ==
    /\ ChainCalled /\ last.rv = "0" /\ Len(out.data) = 511
    /\ Len(CommandApdus) = 3
    /\ Len(out.log[3].data) = 1
    /\ out.replies[1].sw = SW_WARNING_NO_CHANGE_00

\* C22: when the answer to a slice has a status whose high byte is none of
\* 0x90, 0x61, 0x62 and 0x63, no further APDU is sent and the call returns
\* 0 with that status in a_sw; and after every call that returns 0, a_sw is
\* the status of the last APDU exchanged.
C22_TerminalStatusStops ==
    (ChainCalled /\ last.rv = "0") =>
        /\ \A i \in 1..NumSlices :
             (i <= Len(out.replies) /\ ~ContinueStatus(out.replies[i].sw))
                 => /\ Len(out.log) = i
                    /\ out.a_sw = out.replies[i].sw
        /\ Len(out.replies) = Len(out.log)
        /\ Len(out.log) > 0
        /\ out.a_sw = out.replies[Len(out.replies)].sw

\* The second of three slices was answered 6A84 and the third was not sent.
C22_Witness ==
    /\ ChainCalled /\ last.rv = "0" /\ Len(out.data) = 511
    /\ Len(out.log) = 2
    /\ out.replies[2].sw = SW_OUT_OF_MEMORY
    /\ out.a_sw = SW_OUT_OF_MEMORY

RECURSIVE ConcatData(_, _)
\* The data of the answers from the i-th on, one behind the other.
ConcatData(replies, i) ==
    IF i > Len(replies) THEN <<>>
    ELSE replies[i].data \o ConcatData(replies, i + 1)

FreshlySealed ==
    last.op \in {"piv_box_seal_offline", "piv_box_seal"} /\ last.rv = "0"
\* len filled up to a multiple of blocksz.
PaddedLen(len, blocksz) == ((len + blocksz - 1) \div blocksz) * blocksz
\* The checks piv_box_open_offline and piv_box_open make on the fields of
\* the envelope before they decrypt.
OpenChecksPass(b) ==
    /\ b.pdb_cipher # NullPtr /\ b.pdb_kdf # NullPtr
    /\ cipher_by_name(b.pdb_cipher) # NullCipher
    /\ ssh_digest_bytes(ssh_digest_alg_by_name(b.pdb_kdf))
           >= cipher_by_name(b.pdb_cipher).key_len
    /\ b.pdb_iv.b_data # NullPtr
    /\ b.pdb_iv.b_size = cipher_by_name(b.pdb_cipher).iv_len
    /\ b.pdb_enc.b_data # NullPtr
    /\ b.pdb_enc.b_size >= cipher_by_name(b.pdb_cipher).auth_len
                               + cipher_by_name(b.pdb_cipher).block_size

\* C24: a box that piv_box_seal_offline or piv_box_seal has sealed holds a
\* ciphertext as long as the padded plaintext and the tag, which is at
\* least a block and the tag, an IV of the length of the cipher's IV, and
\* the name of a digest that is at least as long as the cipher's key; so
\* none of the checks of the envelope in piv_box_open_offline and
\* piv_box_open fails on it.
C24_SealedEnvelope ==
    FreshlySealed =>
        /\ box.pdb_enc.b_size =
               PaddedLen(Len(gh.plain),
                         cipher_by_name(box.pdb_cipher).block_size)
               + cipher_by_name(box.pdb_cipher).auth_len
        /\ Len(box.pdb_enc.b_data) = box.pdb_enc.b_size
        /\ Len(box.pdb_iv.b_data) = cipher_by_name(box.pdb_cipher).iv_len
        /\ OpenChecksPass(box)

\* A plaintext of one byte sealed with the block cipher: 16 bytes of
\* ciphertext and 16 of tag.
C24_Witness ==
    /\ FreshlySealed
    /\ box.pdb_cipher = STR_aes128_gcm
    /\ Len(gh.plain) = 1
    /\ box.pdb_enc.b_size = 32
    /\ box.pdb_iv.b_size = 12

\* C25: piv_box_seal_offline makes the ephemeral key pair on the curve of
\* the recipient's key: in the box it leaves, the ephemeral public key and
\* the recipient's public key are on the same curve.
C25_EphemeralOnRecipientCurve ==
    (last.op = "piv_box_seal_offline" /\ last.rv = "0") =>
        box.pdb_ephem_pub.bits = box.pdb_pub.bits

\* C26: a box sealed by piv_box_seal_offline, with no token and slot given,
\* is written by piv_box_to_binary with the version 1, a GUID of 16 zero
\* bytes and the slot 0xFF.
C26_OfflineEnvelopeHeader ==
    (last.op = "piv_box_to_binary" /\ last.rv = "0" /\ gh.how = "offline") =>
        /\ ser.bytes[1] = 1
        /\ SubSeq(ser.bytes, 2, 5) = <<0, 0, 0, 16>>
        /\ SubSeq(ser.bytes, 6, 21) = [i \in 1..16 |-> 0]
        /\ ser.bytes[22] = 255

(***************************************************************************)
(* The PIN on the wire                                                     *)
(***************************************************************************)
\* A PIN of at most 8 characters, left-aligned in 8 bytes and filled up
\* with 0xFF.
PinField(pin) == pin \o [i \in 1..(8 - Len(pin)) |-> 255]

\* C27: for a PIN of 1 to 8 characters the data of the VERIFY APDU are 8
\* bytes, the PIN followed by 0xFF up to the end, and the data of CHANGE
\* REFERENCE DATA are 16 bytes, the old PIN in that form followed by the
\* new PIN in that form.
C27_PinEncoding ==
    /\ (last.op = "piv_verify_pin" /\ out.op = "verify") =>
          /\ Len(out.log) = 1
          /\ out.log[1].ins = 32 /\ out.log[1].p2 = 128
          /\ out.log[1].data = PinField(out.pin)
          /\ Len(out.log[1].data) = 8
    /\ (last.op = "piv_change_pin" /\ out.op = "change") =>
          /\ Len(out.log) = 1
          /\ out.log[1].ins = 36 /\ out.log[1].p2 = 128
          /\ out.log[1].data = PinField(out.pin) \o PinField(out.newpin)
          /\ Len(out.log[1].data) = 16

\* An old PIN of three characters and a new one of eight have been sent.
C27_Witness ==
    /\ last.op = "piv_change_pin" /\ out.op = "change"
    /\ Len(out.pin) = 3 /\ Len(out.newpin) = 8
    /\ out.log[1].data[4] = 255
    /\ out.log[1].data[16] = out.newpin[8]

(***************************************************************************)
(* Hashing on the card                                                     *)
(***************************************************************************)
\* The variant of ECCP256 with which the card computes the hash itself.
CardHashVariant(hashalgo) ==
    IF hashalgo = SSH_DIGEST_SHA1 THEN "ECCP256_SHA1" ELSE "ECCP256_SHA256"
\* The card of the token has listed the algorithm.
CardListed(t, alg) ==
    \E i \in 1..Len(tok[t].pt_algs) : tok[t].pt_algs[i] = alg

\* C28: piv_sign with a slot of ECC P-256: when the card has listed the
\* variant for the effective hash, GENERAL AUTHENTICATE is sent with that
\* variant as P1 and the message itself as the challenge; otherwise P1 is
\* ECCP256 and the challenge is the digest of the message computed on the
\* host.
C28_CardHashOrHostDigest ==
    (last.op = "piv_sign" /\ out.op = "sign" /\ gh.alg = "ECCP256"
        /\ last.rv # "ABORT") =>
        IF CardListed(last.tk, CardHashVariant(out.hashalgo))
        THEN /\ out.p1 = CardHashVariant(out.hashalgo)
             /\ out.block = gh.data
        ELSE /\ out.p1 = "ECCP256"
             /\ out.block = Digest(out.hashalgo, gh.data)

(***************************************************************************)
(* The list of algorithms of a token                                       *)
(***************************************************************************)
\* C29: whatever number of algorithms the answers to SELECT list, and
\* however often piv_select is called, the count of algorithms of the token
\* is at most the number of elements of its array and nothing is written
\* behind the array's end.
C29_AlgListBounded ==
    \/ last.op # "piv_select"
    \/ /\ last.rv # "ABORT"
       /\ gh.pt_alg_count <= 32
       /\ gh.outside = 0

(***************************************************************************)
(* The must-reset flag                                                     *)
(***************************************************************************)
ResetSetters == {"piv_verify_pin", "piv_change_pin", "piv_auth_admin"}
ErrorReturns == {"EIO", "EACCES", "ENOENT", "EINVAL", "ENOTSUP", "EAGAIN"}
\* C30: a call of piv_verify_pin, piv_change_pin or piv_auth_admin that
\* returns 0 leaves the must-reset flag of the token set, and one that
\* returns an error leaves the flag as it was before the call.
C30_ResetOnlyOnSuccess ==
    [][\A t \in Readers :
         (last'.op \in ResetSetters /\ last'.tk = t) =>
             /\ last'.rv = "0" => tok'[t].pt_reset
             /\ last'.rv \in ErrorReturns =>
                    tok'[t].pt_reset = tok[t].pt_reset]_vars
\* The same of piv_verify_pin and piv_change_pin alone.
C30_PinCallsKeepFlag ==
    [][\A t \in Readers :
         (last'.op \in {"piv_verify_pin", "piv_change_pin"} /\ last'.tk = t) =>
             /\ last'.rv = "0" => tok'[t].pt_reset
             /\ last'.rv \in ErrorReturns =>
                    tok'[t].pt_reset = tok[t].pt_reset]_vars

(***************************************************************************)
(* The end of piv_apdu_transceive_chain                                    *)
(***************************************************************************)
\* C31: whatever the card answers, a call of piv_apdu_transceive_chain
\* that has sent its command and reads the reply returns in the end.
C31_ChainTerminates == (out.pc = "get") ~> (out.pc = "done")

(***************************************************************************)
(* The list of slots of a token                                            *)
(***************************************************************************)
\* The records of the list of token t with the slot id.
RecordsOf(t, id) ==
    {i \in 1..Len(tok[t].pt_slots) : tok[t].pt_slots[i].ps_slot = id}
SlotListInOrder ==
    \A t \in Readers : \A id \in PivSlots :
        /\ Cardinality(RecordsOf(t, id)) <= 1
        /\ piv_get_slot(tok[t], id).ps_pubkey = gh[t][id]
\* C32: after any reads of certificates the list of slots of a token holds
\* at most one record for a slot id, piv_get_slot gives the record of the
\* last read of the slot that returned 0, and a read that returns an error
\* leaves the list as it was.
C32_SlotList ==
    /\ []SlotListInOrder
    /\ [][(last'.op = "piv_read_cert" /\ last'.rv # "0"
             /\ last'.rv # "ABORT") =>
            \A t \in Readers : tok'[t].pt_slots = tok[t].pt_slots]_vars
\* A slot that held the certificate of one key was read again and holds
\* the certificate of another, in a list of more than one record.
C32_Witness ==
    /\ last.op = "piv_read_cert" /\ last.rv = "0" /\ out.op = "read_cert"
    /\ out.before # NullSlot
    /\ out.before.ps_pubkey # gh[last.tk][out.slotid]
    /\ Len(tok[last.tk].pt_slots) > 1

(***************************************************************************)
(* piv_read_all_certs                                                      *)
(***************************************************************************)
\* The reads of the last piv_read_all_certs whose error is neither ENOENT
\* nor ENOTSUP.
FatalReads ==
    {i \in 1..Len(out.got) : out.got[i].rv \notin {"0", "ENOENT", "ENOTSUP"}}
\* C36: piv_read_all_certs reads 9E, 9A, 9C and 9D in this order; when no
\* read fails with an error other than ENOENT and ENOTSUP it reads all four
\* and returns 0, and otherwise it stops at the first such read and returns
\* its error.
C36_ReadAllNonFatal ==
    (last.op = "piv_read_all_certs" /\ last.intxn /\ last.rv # "ABORT") =>
        /\ \A i \in 1..Len(out.got) : out.got[i].slot = <<158, 154, 156, 157>>[i]
        /\ IF FatalReads = {}
           THEN Len(out.got) = 4 /\ last.rv = "0"
           ELSE /\ FatalReads = {Len(out.got)}
                /\ last.rv = out.got[Len(out.got)].rv
\* The same, with the result of the last read returned when no read fails
\* with another error.
C36_ReadAllReturnsLast ==
    (last.op = "piv_read_all_certs" /\ last.intxn /\ last.rv # "ABORT") =>
        /\ \A i \in 1..Len(out.got) : out.got[i].slot = <<158, 154, 156, 157>>[i]
        /\ FatalReads \subseteq {Len(out.got)}
        /\ FatalReads = {} => Len(out.got) = 4
        /\ last.rv = out.got[Len(out.got)].rv

(***************************************************************************)
(* The transactions of piv_box_find_token                                  *)
(***************************************************************************)
\* C33: piv_box_find_token, called when no token is in a transaction,
\* returns with no token in a transaction, no must-reset flag set and no
\* transaction of a reader left open.
C33_FindEndsTransactions ==
    (last.op = "piv_box_find_token" /\ out.op = "find" /\ out.intxn = {}
        /\ last.rv # "ABORT") =>
        \A t \in Readers :
            /\ ~tok[t].pt_intxn
            /\ ~tok[t].pt_reset
            /\ rdr[t].depth = 0
\* The call found its token by a certificate it had to read itself, and
\* one that failed to read the certificate of a token returned as well.
C33_Witness ==
    /\ last.op = "piv_box_find_token" /\ out.op = "find" /\ out.intxn = {}
    /\ last.rv = "0"
    /\ out.tk \notin out.cached
    /\ rdr[out.tk].lastok = "end"
    /\ \E u \in Readers : u \notin out.cached /\ tok[u].pt_slots = <<>>

(***************************************************************************)
(* piv_box_find_token and the content of an envelope                       *)
(***************************************************************************)
\* C34: piv_box_find_token of an envelope that piv_box_from_binary
\* accepted, called when no token is in a transaction and with readers
\* that work and cards that give the certificates they hold, returns 0 or
\* an error and is not stopped by an assertion.
C34_FindNeverAborts ==
    (last.op = "piv_box_find_token" /\ out.op = "find" /\ out.intxn = {}
        /\ out.sound) => last.rv # "ABORT"

(***************************************************************************)
(* PINs of any length                                                      *)
(***************************************************************************)
\* C35: whatever the length of a PIN, piv_verify_pin writes its characters
\* to the 8 bytes of its buffer only, and piv_change_pin writes those of
\* the old PIN to the first 8 bytes of its buffer only and those of the new
\* PIN to the last 8.
C35_PinWritesInBounds ==
    /\ (last.op = "piv_verify_pin" /\ out.op = "verify") =>
          out.wrote_pin \subseteq 1..8
    /\ (last.op = "piv_change_pin" /\ out.op = "change") =>
          /\ out.wrote_pin \subseteq 1..8
          /\ out.wrote_new \subseteq 9..16
\* The same of PINs of at most 8 characters.
C35_ShortPinsInBounds ==
    /\ (last.op = "piv_verify_pin" /\ out.op = "verify"
            /\ Len(out.pin) <= 8) =>
          out.wrote_pin \subseteq 1..8
    /\ (last.op = "piv_change_pin" /\ out.op = "change"
            /\ Len(out.pin) <= 8 /\ Len(out.newpin) <= 8) =>
          /\ out.wrote_pin \subseteq 1..8
          /\ out.wrote_new \subseteq 9..16
          /\ last.rv # "ABORT"

(***************************************************************************)
(* piv_enumerate and readers that fail                                     *)
(***************************************************************************)
\* C37: whichever of the reader's calls fail, piv_enumerate returns a list
\* and is not stopped by an assertion, no reader on which a call failed is
\* in the list, and no token of the list is in a transaction.
C37_EnumerateToleratesReaders ==
    (last.op = "piv_enumerate" /\ out.op = "enumerate") =>
        /\ last.rv # "ABORT"
        /\ \A r \in Readers :
              /\ out.failed[r] # "none" => ~Listed(r)
              /\ Listed(r) => ~tok[r].pt_intxn
\* The same of readers that fail to connect or to pass on an APDU.
C37_ToleratesConnectAndTransmit ==
    (last.op = "piv_enumerate" /\ out.op = "enumerate"
        /\ \A r \in Readers : out.failed[r] # "begin") =>
        /\ last.rv # "ABORT"
        /\ \A r \in Readers :
              /\ out.failed[r] # "none" => ~Listed(r)
              /\ Listed(r) => ~tok[r].pt_intxn

====
